---- MODULE Spec2Model ----
(***************************************************************************)
(* The automation rule engine of the smart-home control centre             *)
(* (src/control/rule-engine.ts, kept here as src/unnamed/part_008).        *)
(*                                                                         *)
(* JavaScript values are tagged records, strings are TLA+ strings taken    *)
(* apart character by character, a Map is a sequence of key/value entries  *)
(* in insertion order, a Date is its number of milliseconds.               *)
(***************************************************************************)
EXTENDS Integers, Sequences, FiniteSets, TLC

(***************************************************************************)
(* JavaScript values                                                       *)
(***************************************************************************)
JUndef == [t |-> "undefined"]
JNull == [t |-> "null"]
JNaN == [t |-> "nan"]
JNum(n) == [t |-> "number", n |-> n]
JBool(b) == [t |-> "boolean", b |-> b]
JStr(s) == [t |-> "string", s |-> s]
JObj(f) == [t |-> "object", o |-> f]
JArr(a) == [t |-> "array", a |-> a]

\* ToBoolean: undefined, null, false, 0, NaN and '' are falsy.
Truthy(v) ==
  CASE v.t = "undefined" -> FALSE
    [] v.t = "null" -> FALSE
    [] v.t = "nan" -> FALSE
    [] v.t = "boolean" -> v.b
    [] v.t = "number" -> v.n # 0
    [] v.t = "string" -> v.s # ""
    [] OTHER -> TRUE

Digits == <<"0", "1", "2", "3", "4", "5", "6", "7", "8", "9">>

CharAt(s, i) == SubSeq(s, i, i)

IsDigit(c) == \E d \in 1..10 : Digits[d] = c

DigitVal(c) == (CHOOSE d \in 1..10 : Digits[d] = c) - 1

AllDigits(s) == \A i \in 1..Len(s) : IsDigit(CharAt(s, i))

RECURSIVE DecimalValue(_)
DecimalValue(s) ==
  IF s = "" THEN 0
  ELSE 10 * DecimalValue(SubSeq(s, 1, Len(s) - 1)) + DigitVal(CharAt(s, Len(s)))

RECURSIVE NatToString(_)
NatToString(n) ==
  IF n < 10 THEN Digits[n + 1]
  ELSE NatToString(n \div 10) \o Digits[(n % 10) + 1]

IntToString(n) == IF n < 0 THEN "-" \o NatToString(0 - n) ELSE NatToString(n)

\* StringToNumber for the numerals of the model: '' is 0, an optionally
\* signed run of decimal digits is its value, every other string is NaN.
\* (Numerals with a fraction, an exponent, a radix prefix or white space
\* are outside the alphabet of the model.)
StringToNumber(s) ==
  IF s = "" THEN JNum(0)
  ELSE IF AllDigits(s) THEN JNum(DecimalValue(s))
  ELSE IF Len(s) > 1 /\ CharAt(s, 1) = "-" /\ AllDigits(SubSeq(s, 2, Len(s)))
    THEN JNum(0 - DecimalValue(SubSeq(s, 2, Len(s))))
  ELSE JNaN

RECURSIVE ToStr(_)
\* String(v)
ToStr(v) ==
  CASE v.t = "undefined" -> "undefined"
    [] v.t = "null" -> "null"
    [] v.t = "nan" -> "NaN"
    [] v.t = "boolean" -> (IF v.b THEN "true" ELSE "false")
    [] v.t = "number" -> IntToString(v.n)
    [] v.t = "string" -> v.s
    [] v.t = "object" -> "[object Object]"
    [] v.t = "array" ->
         LET elem(i) == IF v.a[i].t \in {"undefined", "null"} THEN ""
                        ELSE ToStr(v.a[i])
             join[i \in 0..Len(v.a)] ==
               IF i = 0 THEN ""
               ELSE IF i = 1 THEN elem(1)
               ELSE join[i - 1] \o "," \o elem(i)
         IN join[Len(v.a)]

\* Number(v): a JNum or JNaN
Number(v) ==
  CASE v.t = "undefined" -> JNaN
    [] v.t = "null" -> JNum(0)
    [] v.t = "nan" -> JNaN
    [] v.t = "boolean" -> JNum(IF v.b THEN 1 ELSE 0)
    [] v.t = "number" -> v
    [] v.t = "string" -> StringToNumber(v.s)
    [] v.t = "object" -> JNaN
    [] v.t = "array" -> StringToNumber(ToStr(v))

\* a === b: no coercion, NaN differs from itself, objects and arrays are
\* compared by reference (a value of a rule and a value of a telemetry
\* payload are never the same object).
StrictEquals(a, b) ==
  CASE a.t # b.t -> FALSE
    [] a.t \in {"nan", "object", "array"} -> FALSE
    [] OTHER -> a = b

\* Array.prototype.includes compares with SameValueZero: as ===, but NaN
\* is found.
SameValueZero(a, b) == StrictEquals(a, b) \/ (a.t = "nan" /\ b.t = "nan")

\* String.prototype.includes
StringIncludes(s, sub) ==
  \E i \in 1..(Len(s) + 1) :
    /\ i + Len(sub) - 1 <= Len(s)
    /\ SubSeq(s, i, i + Len(sub) - 1) = sub

RECURSIVE StringSplit(_, _)
\* String.prototype.split with a one-character separator
StringSplit(s, sep) ==
  IF \A i \in 1..Len(s) : CharAt(s, i) # sep THEN <<s>>
  ELSE LET k == CHOOSE i \in 1..Len(s) :
                  /\ CharAt(s, i) = sep
                  /\ \A j \in 1..(i - 1) : CharAt(s, j) # sep
       IN <<SubSeq(s, 1, k - 1)>> \o StringSplit(SubSeq(s, k + 1, Len(s)), sep)

\* x < y on the results of Number(): false as soon as one side is NaN
NumLess(x, y) == x.t = "number" /\ y.t = "number" /\ x.n < y.n
NumLessEq(x, y) == x.t = "number" /\ y.t = "number" /\ x.n <= y.n

\* x * 60 + y as evaluateTime computes it, NaN when an operand is not a number
TimeOfDay(x, y) ==
  IF x.t = "number" /\ y.t = "number" THEN JNum(x.n * 60 + y.n) ELSE JNaN

(***************************************************************************)
(* Map: entries [key, val] in insertion order                              *)
(***************************************************************************)
MapHas(m, k) == \E i \in 1..Len(m) : m[i].key = k

MapIndex(m, k) == CHOOSE i \in 1..Len(m) : m[i].key = k

MapGet(m, k) == m[MapIndex(m, k)].val

\* Map.prototype.set: an existing key keeps its place
MapSet(m, k, v) ==
  IF MapHas(m, k) THEN [m EXCEPT ![MapIndex(m, k)].val = v]
  ELSE Append(m, [key |-> k, val |-> v])

MapDelete(m, k) ==
  IF MapHas(m, k)
  THEN SubSeq(m, 1, MapIndex(m, k) - 1) \o SubSeq(m, MapIndex(m, k) + 1, Len(m))
  ELSE m

MapValues(m) == [i \in 1..Len(m) |-> m[i].val]

MapKeys(m) == {m[i].key : i \in 1..Len(m)}

(***************************************************************************)
(* State                                                                   *)
(***************************************************************************)
VARIABLES
  rules,               \* RuleEngine.rules: Map<string, Rule>
  devices,             \* RuleEngine.devices: Map<string, DeviceData>, the
                       \* values being references into heap
  lastExecution,       \* RuleEngine.lastExecution: Map<string, Date>
  executionCallbacks,  \* RuleEngine.executionCallbacks, by callback name
  heap,                \* the DeviceData objects, by reference
  stack,               \* the evaluation passes in progress, innermost last
  log,                 \* the callback invocations of the outermost call
  passCount,           \* passes started within the outermost call
  result,              \* outcome of the last public call that completed
  now,                 \* Date.now(), milliseconds
  clock,               \* local time of day and day of week of new Date()
  config,              \* what the owner of the engine and its callbacks hand
                       \* to the public methods in this run
  evalIn,              \* input of a stand-alone condition evaluation
  evalOut,             \* its outcome
  deviceCommands,      \* ControlCenter.deviceCommands: Map<string, any[]>
  managedDevices,      \* DeviceManager.devices: Map<string, BaseDevice>
  control,             \* ControlCenter: config.enableAutomation and the
                       \* executeRuleActions calls that have not returned
  baseDevices,         \* the BaseDevice objects of a device process, by
                       \* deviceId: client, state.online, timers
  isRunning            \* DeviceManager.isRunning

vars == <<rules, devices, lastExecution, executionCallbacks, heap, stack, log,
          passCount, result, now, clock, config, evalIn, evalOut,
          deviceCommands, managedDevices, control, baseDevices, isRunning>>

(***************************************************************************)
(* Condition evaluation                                                    *)
(***************************************************************************)
Returns(v) == [threw |-> FALSE, val |-> v]

\* a TypeError leaves the evaluation
Throws == [threw |-> TRUE, val |-> FALSE]

\* this.devices.get(k) for a key that may be any JavaScript value; the keys
\* of the table are strings
DevicesHas(k) == k.t = "string" /\ MapHas(devices, k.s)

DevicesGet(k) == heap[MapGet(devices, k.s)]

\* `part in value` and value[part] for the own properties of plain objects
\* and arrays
IsIndexOf(part, a) ==
  part # "" /\ AllDigits(part) /\ NatToString(DecimalValue(part)) = part
    /\ DecimalValue(part) < Len(a)

HasProperty(value, part) ==
  CASE value.t = "object" -> part \in DOMAIN value.o
    [] value.t = "array" -> part = "length" \/ IsIndexOf(part, value.a)
    [] OTHER -> FALSE

PropertyOf(value, part) ==
  CASE value.t = "object" -> value.o[part]
    [] value.t = "array" ->
         IF part = "length" THEN JNum(Len(value.a))
         ELSE value.a[DecimalValue(part) + 1]

RECURSIVE WalkParts(_, _)
WalkParts(value, parts) ==
  IF parts = <<>> THEN value
  ELSE IF Truthy(value) /\ HasProperty(value, Head(parts))
    THEN WalkParts(PropertyOf(value, Head(parts)), Tail(parts))
  ELSE JUndef

getPropertyValue(device, property) ==
  IF ~Truthy(property) THEN Returns(device.value)
  ELSE IF property.t # "string" THEN Throws   \* property.split is not a function
  ELSE Returns(WalkParts(device.value, StringSplit(property.s, ".")))

\* compareValues with the bounds of 'between' excluded
compareValuesExclusive(actual, operator, expected, secondExpected) ==
  CASE operator = "=" -> StrictEquals(actual, expected)
    [] operator = "!=" -> ~StrictEquals(actual, expected)
    [] operator = ">" -> NumLess(Number(expected), Number(actual))
    [] operator = "<" -> NumLess(Number(actual), Number(expected))
    [] operator = ">=" -> NumLessEq(Number(expected), Number(actual))
    [] operator = "<=" -> NumLessEq(Number(actual), Number(expected))
    [] operator = "contains" -> StringIncludes(ToStr(actual), ToStr(expected))
    [] operator = "between" ->
         /\ NumLess(Number(expected), Number(actual))
         /\ NumLess(Number(actual), Number(secondExpected))
    [] operator = "in" ->
         /\ expected.t = "array"
         /\ \E i \in 1..Len(expected.a) : SameValueZero(expected.a[i], actual)
    [] OTHER -> FALSE

compareValues(actual, operator, expected, secondExpected) ==
  CASE operator = "=" -> StrictEquals(actual, expected)
    [] operator = "!=" -> ~StrictEquals(actual, expected)
    [] operator = ">" -> NumLess(Number(expected), Number(actual))
    [] operator = "<" -> NumLess(Number(actual), Number(expected))
    [] operator = ">=" -> NumLessEq(Number(expected), Number(actual))
    [] operator = "<=" -> NumLessEq(Number(actual), Number(expected))
    [] operator = "contains" -> StringIncludes(ToStr(actual), ToStr(expected))
    [] operator = "between" ->
         /\ NumLessEq(Number(expected), Number(actual))
         /\ NumLessEq(Number(actual), Number(secondExpected))
    [] operator = "in" ->
         /\ expected.t = "array"
         /\ \E i \in 1..Len(expected.a) : SameValueZero(expected.a[i], actual)
    [] OTHER -> FALSE

\* the comparison of an extracted property, the exception of the extraction
\* passing through
CompareProperty(condition, extracted) ==
  IF extracted.threw THEN Throws
  ELSE Returns(compareValues(extracted.val, condition.operator,
                             condition.value, condition.secondValue))

evaluateDeviceState(condition, triggerDevice) ==
  LET deviceId == IF Truthy(condition.deviceId) THEN condition.deviceId
                  ELSE JStr(triggerDevice.deviceId)
  IN IF ~DevicesHas(deviceId) THEN Returns(FALSE)
     ELSE CompareProperty(condition,
            getPropertyValue(DevicesGet(deviceId), condition.property))

evaluateSensorValue(condition, triggerDevice) ==
  IF /\ Truthy(condition.deviceId)
     /\ ~StrictEquals(condition.deviceId, JStr(triggerDevice.deviceId))
  THEN IF ~DevicesHas(condition.deviceId) THEN Returns(FALSE)
       ELSE CompareProperty(condition,
              getPropertyValue(DevicesGet(condition.deviceId), condition.property))
  ELSE CompareProperty(condition,
         getPropertyValue(triggerDevice, condition.property))

evaluateTime(condition) ==
  LET currentHour == clock.hour
      currentMinute == clock.minute
      currentTime == currentHour * 60 + currentMinute
  IN CASE StrictEquals(condition.property, JStr("hour")) ->
            Returns(compareValues(JNum(currentHour), condition.operator,
                                  condition.value, condition.secondValue))
       [] StrictEquals(condition.property, JStr("time")) ->
            \* condition.value.split(':').map(Number)
            IF condition.value.t # "string" THEN Throws
            ELSE LET parts == StringSplit(condition.value.s, ":")
                     hour == StringToNumber(parts[1])
                     minute == IF Len(parts) >= 2 THEN StringToNumber(parts[2])
                               ELSE JUndef
                     targetTime == TimeOfDay(hour, minute)
                 IN Returns(compareValues(JNum(currentTime), condition.operator,
                                          targetTime, condition.secondValue))
       [] StrictEquals(condition.property, JStr("dayOfWeek")) ->
            Returns(compareValues(JNum(clock.day), condition.operator,
                                  condition.value, condition.secondValue))
       [] OTHER -> Returns(FALSE)

\* a device that is not in the table taken as not offline
evaluateDeviceOfflineKnownOnly(condition) ==
  IF ~DevicesHas(condition.deviceId) THEN Returns(FALSE)
  ELSE Returns(~DevicesGet(condition.deviceId).online)

evaluateDeviceOffline(condition) ==
  IF ~DevicesHas(condition.deviceId) THEN Returns(TRUE)
  ELSE Returns(~DevicesGet(condition.deviceId).online)

evaluateComposite(condition, triggerDevice) == Returns(FALSE)

evaluateCondition(condition, triggerDevice) ==
  CASE condition.type = "device_state" -> evaluateDeviceState(condition, triggerDevice)
    [] condition.type = "sensor_value" -> evaluateSensorValue(condition, triggerDevice)
    [] condition.type = "time" -> evaluateTime(condition)
    [] condition.type = "device_offline" -> evaluateDeviceOffline(condition)
    [] condition.type = "composite" -> evaluateComposite(condition, triggerDevice)
    [] OTHER -> Returns(FALSE)

\* the combinator read from the condition it introduces
CombineWithOwn(conditions, i, acc, currentResult) ==
  IF StrictEquals(conditions[i].logicalOperator, JStr("OR"))
  THEN acc \/ currentResult
  ELSE acc /\ currentResult

\* how the running result and the result of conditions[i] combine: by the
\* logicalOperator of conditions[i - 1]
CombineWith(conditions, i, acc, currentResult) ==
  IF StrictEquals(conditions[i - 1].logicalOperator, JStr("OR"))
  THEN acc \/ currentResult
  ELSE acc /\ currentResult

\* the value of `result` after the iteration i of the loop (i = 1: before
\* the loop); an exception of a condition ends the evaluation
RECURSIVE ConditionsUpTo(_, _, _)
ConditionsUpTo(conditions, triggerDevice, i) ==
  LET currentResult == evaluateCondition(conditions[i], triggerDevice)
  IN IF i = 1 THEN currentResult
     ELSE LET acc == ConditionsUpTo(conditions, triggerDevice, i - 1)
          IN IF acc.threw \/ currentResult.threw THEN Throws
             ELSE Returns(CombineWith(conditions, i, acc.val, currentResult.val))

\* an empty conjunction taken as true
EmptyConditionsVacuous == TRUE

\* what an empty list of conditions evaluates to
EmptyConditions == FALSE

evaluateConditions(conditions, triggerDevice) ==
  IF Len(conditions) = 0 THEN Returns(EmptyConditions)
  ELSE ConditionsUpTo(conditions, triggerDevice, Len(conditions))

(***************************************************************************)
(* Rules                                                                   *)
(***************************************************************************)
Condition(type, property, operator, value) ==
  [type |-> type, deviceId |-> JUndef, property |-> property,
   operator |-> operator, value |-> value, secondValue |-> JUndef,
   logicalOperator |-> JUndef]

Action(type) ==
  [type |-> type, deviceId |-> JUndef, command |-> JUndef, message |-> JUndef,
   delayMs |-> JUndef, webhookUrl |-> JUndef, severity |-> JUndef]

DeviceCommand(command) == [Action("device_command") EXCEPT !.command = command]

Notification(message, severity) ==
  [Action("notification") EXCEPT !.message = JStr(message),
                                 !.severity = JStr(severity)]

LogAction(message) == [Action("log") EXCEPT !.message = JStr(message)]

DelayAction(delayMs) == [Action("delay") EXCEPT !.delayMs = JNum(delayMs)]

defaultRules ==
  << [id |-> "motion-lights-on",
      name |-> "Turn on lights when motion detected",
      description |-> "Automatically turn on lights in a room when motion is detected",
      enabled |-> TRUE, priority |-> 100, cooldownMs |-> JNum(5000),
      conditions |-> <<Condition("sensor_value", JStr("detected"), "=", JBool(TRUE))>>,
      actions |-> <<DeviceCommand(JObj([command |-> JStr("turnOn")]))>>],
     [id |-> "motion-lights-off",
      name |-> "Turn off lights when no motion",
      description |-> "Turn off lights after motion clears and some time has passed",
      enabled |-> TRUE, priority |-> 90, cooldownMs |-> JNum(30000),
      conditions |-> <<Condition("sensor_value", JStr("detected"), "=", JBool(FALSE))>>,
      actions |-> <<DelayAction(60000),
                    DeviceCommand(JObj([command |-> JStr("turnOff")]))>>],
     [id |-> "temperature-alert-high",
      name |-> "High temperature alert",
      description |-> "Alert when temperature exceeds threshold",
      enabled |-> TRUE, priority |-> 200, cooldownMs |-> JNum(300000),
      conditions |-> <<Condition("sensor_value", JStr("value.value"), ">", JNum(30))>>,
      actions |-> <<Notification("High temperature detected", "high")>>],
     [id |-> "door-open-night-alert",
      name |-> "Door opened at night alert",
      description |-> "Alert when doors are opened during night hours",
      enabled |-> TRUE, priority |-> 300, cooldownMs |-> JNum(60000),
      conditions |->
        << [Condition("sensor_value", JStr("state"), "=", JStr("open"))
              EXCEPT !.logicalOperator = JStr("AND")],
           [Condition("time", JStr("hour"), "between", JNum(22))
              EXCEPT !.secondValue = JNum(6)] >>,
      actions |-> <<Notification("Door opened during night hours", "high"),
                    LogAction("Security alert: Night door opening")>>],
     [id |-> "energy-saving-lights",
      name |-> "Energy saving mode",
      description |-> "Dim lights when energy consumption is high",
      enabled |-> TRUE, priority |-> 50, cooldownMs |-> JNum(120000),
      conditions |-> <<Condition("sensor_value", JStr("instantPower"), ">", JNum(3000))>>,
      actions |-> <<DeviceCommand(JObj([command |-> JStr("setBrightness"),
                                        brightness |-> JNum(50)])),
                    Notification("Energy saving mode activated - lights dimmed", "low")>>],
     [id |-> "welcome-home",
      name |-> "Welcome home automation",
      description |-> "Turn on lights when front door opens during evening",
      enabled |-> TRUE, priority |-> 150, cooldownMs |-> JNum(300000),
      conditions |->
        << [Condition("device_state", JStr("state"), "=", JStr("open"))
              EXCEPT !.logicalOperator = JStr("AND")],
           [Condition("time", JStr("hour"), "between", JNum(17))
              EXCEPT !.secondValue = JNum(22)] >>,
      actions |-> <<DeviceCommand(JObj([command |-> JStr("turnOn")])),
                    DeviceCommand(JObj([command |-> JStr("preset"),
                                        preset |-> JStr("bright")])),
                    Notification("Welcome home! Lights turned on.", "low")>>] >>

RECURSIVE AddAll(_, _)
\* defaultRules.forEach(rule => this.addRule(rule)) on the empty store
AddAll(m, rs) ==
  IF rs = <<>> THEN m ELSE AddAll(MapSet(m, Head(rs).id, Head(rs)), Tail(rs))

loadDefaultRules == AddAll(<<>>, defaultRules)

\* sort((a, b) => a.priority - b.priority): stable, ascending
SortAscending(rs) ==
  LET rank(i) == Cardinality({j \in 1..Len(rs) : rs[j].priority < rs[i].priority})
                 + Cardinality({j \in 1..(i - 1) : rs[j].priority = rs[i].priority})
                 + 1
  IN [k \in 1..Len(rs) |-> rs[CHOOSE i \in 1..Len(rs) : rank(i) = k]]

\* Array.prototype.sort((a, b) => b.priority - a.priority): stable, by
\* descending priority
SortByPriority(rs) ==
  LET rank(i) == Cardinality({j \in 1..Len(rs) : rs[j].priority > rs[i].priority})
                 + Cardinality({j \in 1..(i - 1) : rs[j].priority = rs[i].priority})
                 + 1
  IN [k \in 1..Len(rs) |-> rs[CHOOSE i \in 1..Len(rs) : rank(i) = k]]

\* a pass that takes every rule of the store
IsEnabledIgnored(rule) == TRUE

\* which rules a pass takes from the store
IsEnabled(rule) == rule.enabled

\* Array.prototype.filter(rule => rule.enabled)
RECURSIVE FilterEnabled(_)
FilterEnabled(rs) ==
  IF rs = <<>> THEN <<>>
  ELSE (IF IsEnabled(Head(rs)) THEN <<Head(rs)>> ELSE <<>>) \o FilterEnabled(Tail(rs))

\* the rules of a pass: the enabled rules of the store, sorted, as of the
\* start of the pass
EnabledRules == SortByPriority(FilterEnabled(MapValues(rules)))

\* this.rules.get(ruleId)
getRule(ruleId) == IF MapHas(rules, ruleId) THEN MapGet(rules, ruleId) ELSE JUndef

\* getAllRules without its sort
getAllRulesUnsorted == MapValues(rules)

getAllRules == SortByPriority(MapValues(rules))

\* { ...updates, ...rule }: the spread the other way round
MergeKeepsRule(rule, updates) ==
  [f \in (DOMAIN rule) \cup (DOMAIN updates) |->
     IF f \in DOMAIN rule THEN rule[f] ELSE updates[f]]

\* { ...rule, ...updates }
Merge(rule, updates) ==
  [f \in (DOMAIN rule) \cup (DOMAIN updates) |->
     IF f \in DOMAIN updates THEN updates[f] ELSE rule[f]]

\* the comparison of isInCooldown turned around
isInCooldownReversed(ruleId) ==
  IF ~MapHas(rules, ruleId) THEN FALSE
  ELSE IF ~Truthy(MapGet(rules, ruleId).cooldownMs) THEN FALSE
  ELSE IF ~MapHas(lastExecution, ruleId) THEN FALSE
  ELSE now - MapGet(lastExecution, ruleId) > MapGet(rules, ruleId).cooldownMs.n

\* an engine without cooldown
isInCooldownNever(ruleId) == FALSE

isInCooldown(ruleId) ==
  IF ~MapHas(rules, ruleId) THEN FALSE
  ELSE IF ~Truthy(MapGet(rules, ruleId).cooldownMs) THEN FALSE
  ELSE IF ~MapHas(lastExecution, ruleId) THEN FALSE
  ELSE now - MapGet(lastExecution, ruleId) < MapGet(rules, ruleId).cooldownMs.n

\* Array.from(this.lastExecution.entries()).map(([ruleId, timestamp]) =>
\* ({ ruleId, timestamp }))
ExecutionEntries ==
  [i \in 1..Len(lastExecution) |->
     [ruleId |-> lastExecution[i].key, timestamp |-> lastExecution[i].val]]

\* sort((a, b) => b.timestamp.getTime() - a.timestamp.getTime()): stable, the
\* latest first
SortByRecency(es) ==
  LET rank(i) == Cardinality({j \in 1..Len(es) : es[j].timestamp > es[i].timestamp})
                 + Cardinality({j \in 1..(i - 1) : es[j].timestamp = es[i].timestamp})
                 + 1
  IN [k \in 1..Len(es) |-> es[CHOOSE i \in 1..Len(es) : rank(i) = k]]

RecentLimit == 10

\* Array.prototype.slice(0, n)
SliceFirst(es, n) == SubSeq(es, 1, IF Len(es) < n THEN Len(es) ELSE n)

\* the online devices counted as all devices of the table
OnlineDevicesAll == [i \in 1..Len(devices) |-> heap[devices[i].val]]

\* Array.from(this.devices.values()).filter(d => d.online)
OnlineDevices ==
  LET Online[i \in 0..Len(devices)] ==
        IF i = 0 THEN <<>>
        ELSE IF heap[devices[i].val].online
          THEN Append(Online[i - 1], heap[devices[i].val])
        ELSE Online[i - 1]
  IN Online[Len(devices)]

\* the object getStats returns
Stats ==
  LET enabledRules == FilterEnabled(MapValues(rules))
      onlineDevices == OnlineDevices
      recentExecutions == SliceFirst(SortByRecency(ExecutionEntries), RecentLimit)
  IN [totalRules |-> Len(rules),
      enabledRules |-> Len(enabledRules),
      disabledRules |-> Len(rules) - Len(enabledRules),
      totalDevices |-> Len(devices),
      onlineDevices |-> Len(onlineDevices),
      recentExecutions |-> recentExecutions]

(***************************************************************************)
(* Bounds and inputs                                                       *)
(***************************************************************************)
MaxTime == 3           \* the clock runs from 0 to MaxTime milliseconds
MaxPasses == 2         \* passes within one outermost call (1 = no re-entry)
MaxCallbacks == 2      \* registered execution callbacks

Cool == 2              \* the cooldownMs of the throttled test rule

CallbackNames == <<"cb1", "cb2", "cb3">>

DeviceInput(deviceId, value, online) ==
  [deviceId |-> deviceId, deviceType |-> "temperature-sensor", room |-> "test-room",
   name |-> deviceId, topic |-> "home/test-room/" \o deviceId \o "/temperature",
   value |-> value, timestamp |-> 0, online |-> online]

Hot == JObj([temperature |-> JNum(35)])

Mild == JObj([temperature |-> JNum(20)])

TestRule(id, priority, cooldownMs, conditions) ==
  [id |-> id, name |-> id, description |-> "", enabled |-> TRUE,
   priority |-> priority, cooldownMs |-> cooldownMs, conditions |-> conditions,
   actions |-> <<LogAction(id)>>]

TemperatureAbove30 == Condition("sensor_value", JStr("temperature"), ">", JNum(30))

\* The program around the engine, one configuration per run: the rules, the
\* device data, the device ids and the rule updates it hands to the public
\* methods, how many callbacks it registers, the public methods its callbacks
\* call while they run, and how far the clock runs.
CooldownConfig ==
  [rules |-> {TestRule("throttled", 100, JNum(Cool), <<TemperatureAbove30>>)},
   deviceData |-> {DeviceInput("d1", Hot, TRUE), DeviceInput("d1", Mild, TRUE)},
   deviceIds |-> {"d1"},
   updates |-> {},
   callbacks |-> 1,
   reentrant |-> {"updateDeviceData"},
   horizon |-> MaxTime]

PriorityConfig ==
  [rules |-> {TestRule("first", 100, JUndef, <<TemperatureAbove30>>),
              TestRule("second", 100, JUndef, <<TemperatureAbove30>>),
              TestRule("second", 10, JUndef, <<TemperatureAbove30>>)},
   deviceData |-> {DeviceInput("d1", Hot, TRUE)},
   deviceIds |-> {"d1"},
   updates |-> {},
   callbacks |-> MaxCallbacks,
   reentrant |-> {"disableRule"},
   horizon |-> 0]

MalformedConfig ==
  [rules |-> {TestRule("empty", 100, JUndef, <<>>),
              TestRule("callback-test", 100, JUndef,
                <<Condition("sensor_value", JStr("value.temperature"), ">", JNum(30))>>),
              TestRule("bad-time", 10, JUndef,
                <<Condition("time", JStr("time"), ">", JNum(5))>>)},
   deviceData |-> {DeviceInput("temp-test", Hot, TRUE)},
   deviceIds |-> {"temp-test", "unknown"},
   updates |-> {[name |-> "Updated Name", priority |-> 75]},
   callbacks |-> 1,
   reentrant |-> {"updateDeviceData", "markDeviceOffline"},
   horizon |-> 0]

\* the rule store on its own: a test rule of the priority of the default rule
\* motion-lights-on, that default rule added again, the update of the test
\* 'should update rules' and an update that supplies an id
StoreConfig ==
  [rules |-> {TestRule("update-test", 100, JUndef, <<>>), defaultRules[1]},
   deviceData |-> {},
   deviceIds |-> {},
   updates |-> {[name |-> "Updated Name", priority |-> 75], [id |-> "renamed"]},
   callbacks |-> 0,
   reentrant |-> {},
   horizon |-> 0]

DeviceOffline(deviceId) ==
  [Condition("device_offline", JUndef, "=", JBool(TRUE)) EXCEPT !.deviceId = JStr(deviceId)]

\* a device that is reported and marked offline, a rule on its telemetry and
\* a rule on its being offline, and a callback that marks it offline
OfflineConfig ==
  [rules |-> {TestRule("hot", 100, JUndef, <<TemperatureAbove30>>),
              TestRule("offline-alert", 100, JUndef, <<DeviceOffline("d1")>>)},
   deviceData |-> {DeviceInput("d1", Hot, TRUE)},
   deviceIds |-> {"d1"},
   updates |-> {},
   callbacks |-> 1,
   reentrant |-> {"markDeviceOffline"},
   horizon |-> 0]

\* the device table and the statistics: two devices, one of them reported
\* online and offline and marked offline, a rule on its telemetry and a rule
\* on its being offline, and a callback that reports again and reads the
\* statistics
TableConfig ==
  [rules |-> {TestRule("hot", 100, JUndef, <<TemperatureAbove30>>),
              TestRule("offline-alert", 50, JUndef, <<DeviceOffline("d1")>>)},
   deviceData |-> {DeviceInput("d1", Hot, TRUE), DeviceInput("d1", Mild, FALSE),
                   DeviceInput("d2", Mild, TRUE)},
   deviceIds |-> {"d1"},
   updates |-> {},
   callbacks |-> 1,
   reentrant |-> {"updateDeviceData", "getStats"},
   horizon |-> 0]

\* the rule store during a pass: two rules that hold for the report, the
\* lower one also in a second version, and a callback that adds, removes,
\* enables and disables rules
PassConfig ==
  [rules |-> {TestRule("high", 100, JUndef, <<TemperatureAbove30>>),
              TestRule("low", 10, JUndef, <<TemperatureAbove30>>),
              TestRule("low", 20, JUndef, <<TemperatureAbove30>>)},
   deviceData |-> {DeviceInput("d1", Hot, TRUE)},
   deviceIds |-> {},
   updates |-> {},
   callbacks |-> 1,
   reentrant |-> {"addRule", "removeRule", "enableRule", "disableRule"},
   horizon |-> 0]

Motion ==
  [DeviceInput("motion-1", JObj([detected |-> JBool(TRUE)]), TRUE)
     EXCEPT !.deviceType = "motion-detector", !.room = "living-room"]

Light ==
  [DeviceInput("light-1", JObj([power |-> JBool(FALSE)]), TRUE)
     EXCEPT !.deviceType = "smart-light", !.room = "living-room"]

\* the control centre: a motion detector and a light of one room, the default
\* rules, and a rule on motion whose command names the light
ControlConfig ==
  [rules |-> {[TestRule("light-on", 100, JUndef,
                 <<Condition("sensor_value", JStr("detected"), "=", JBool(TRUE))>>)
                 EXCEPT !.actions =
                   <<[DeviceCommand(JObj([command |-> JStr("turnOn")]))
                        EXCEPT !.deviceId = JStr("light-1")]>>]},
   deviceData |-> {Motion, Light},
   deviceIds |-> {},
   updates |-> {},
   callbacks |-> 1,
   reentrant |-> {},
   horizon |-> 0]

Configs == {CooldownConfig, PriorityConfig, MalformedConfig, StoreConfig, OfflineConfig}

\* the ids handed to removeRule, updateRule, enableRule and disableRule
RuleIdInputs == {r.id : r \in config.rules} \cup {"missing"}

StartClocks == {[hour |-> 12, minute |-> 0, day |-> 1]}

(***************************************************************************)
(* The engine                                                              *)
(***************************************************************************)
Top == stack[Len(stack)]

\* a public method can be called by the owner of the engine when nothing is
\* running, and by a callback while it runs
CanCall(method) ==
  IF stack = <<>> THEN TRUE
  ELSE Top.phase = "incallback" /\ method \in config.reentrant

\* a pass can start when the bound on re-entry allows
CanTrigger(method) == CanCall(method) /\ (stack # <<>> => passCount < MaxPasses)

NoContext == [rule |-> "none"]

Completed(method, ret) == [method |-> method, threw |-> FALSE, ret |-> ret]

Failed(method) == [method |-> method, threw |-> TRUE, ret |-> JUndef]

\* The log covers one outermost call. Once that call is over, nothing refers
\* to the objects that left the device table: the next step of the run drops
\* the log and renumbers the heap to the objects of the table.
LiveHeap == IF stack = <<>> THEN [i \in 1..Len(devices) |-> heap[devices[i].val]] ELSE heap

LiveDevices ==
  IF stack = <<>> THEN [i \in 1..Len(devices) |-> [key |-> devices[i].key, val |-> i]]
  ELSE devices

LiveLog == IF stack = <<>> THEN <<>> ELSE log

Settle == heap' = LiveHeap /\ devices' = LiveDevices /\ log' = LiveLog

\* no public call has just completed
NoResult == [method |-> "none", threw |-> FALSE, ret |-> JUndef]

\* evaluateRules(triggerDevice) up to its loop: the rules of the pass
StartPass(op, trigger) ==
  /\ stack' = Append(stack, [op |-> op, id |-> IF stack = <<>> THEN 1 ELSE passCount + 1,
                             enabledRules |-> EnabledRules, i |-> 1,
                             trigger |-> trigger, phase |-> "rules",
                             context |-> NoContext, cb |-> 0])
  /\ passCount' = (IF stack = <<>> THEN 1 ELSE passCount + 1)
  /\ log' = LiveLog
  /\ result' = NoResult

\* addRule that keeps the rule already stored under the id
addRuleKeepsStored(rule) ==
  /\ CanCall("addRule")
  /\ rules' = (IF MapHas(rules, rule.id) THEN rules ELSE MapSet(rules, rule.id, rule))
  /\ result' = Completed("addRule", JUndef)
  /\ Settle
  /\ UNCHANGED <<lastExecution, executionCallbacks, stack, passCount, now,
                 clock, config, evalIn, evalOut,
                 deviceCommands, managedDevices, control,
                 baseDevices, isRunning>>

addRule(rule) ==
  /\ CanCall("addRule")
  /\ rules' = MapSet(rules, rule.id, rule)
  /\ result' = Completed("addRule", JUndef)
  /\ Settle
  /\ UNCHANGED <<lastExecution, executionCallbacks, stack, passCount, now,
                 clock, config, evalIn, evalOut,
                 deviceCommands, managedDevices, control,
                 baseDevices, isRunning>>

\* removeRule that forgets the last execution of the rule as well
removeRuleForgetting(ruleId) ==
  /\ CanCall("removeRule")
  /\ rules' = MapDelete(rules, ruleId)
  /\ lastExecution' = MapDelete(lastExecution, ruleId)
  /\ result' = Completed("removeRule", JBool(MapHas(rules, ruleId)))
  /\ Settle
  /\ UNCHANGED <<executionCallbacks, stack, passCount, now, clock, config,
                 evalIn, evalOut, deviceCommands, managedDevices, control,
                 baseDevices, isRunning>>

removeRule(ruleId) ==
  /\ CanCall("removeRule")
  /\ rules' = MapDelete(rules, ruleId)
  /\ result' = Completed("removeRule", JBool(MapHas(rules, ruleId)))
  /\ Settle
  /\ UNCHANGED <<lastExecution, executionCallbacks, stack, passCount, now,
                 clock, config, evalIn, evalOut,
                 deviceCommands, managedDevices, control,
                 baseDevices, isRunning>>

\* updateRule returning true whether or not it found the rule
UpdateRuleAlwaysTrue(method, ruleId, updates) ==
  /\ CanCall(method)
  /\ rules' = (IF MapHas(rules, ruleId)
               THEN MapSet(rules, ruleId, Merge(MapGet(rules, ruleId), updates))
               ELSE rules)
  /\ result' = Completed(method, JBool(TRUE))
  /\ Settle
  /\ UNCHANGED <<lastExecution, executionCallbacks, stack, passCount, now,
                 clock, config, evalIn, evalOut,
                 deviceCommands, managedDevices, control,
                 baseDevices, isRunning>>

\* the body of updateRule, entered through the public method `method`
UpdateRuleFrom(method, ruleId, updates) ==
  /\ CanCall(method)
  /\ IF ~MapHas(rules, ruleId)
     THEN /\ rules' = rules
          /\ result' = Completed(method, JBool(FALSE))
     ELSE /\ rules' = MapSet(rules, ruleId, Merge(MapGet(rules, ruleId), updates))
          /\ result' = Completed(method, JBool(TRUE))
  /\ Settle
  /\ UNCHANGED <<lastExecution, executionCallbacks, stack, passCount, now,
                 clock, config, evalIn, evalOut,
                 deviceCommands, managedDevices, control,
                 baseDevices, isRunning>>

updateRule(ruleId, updates) == UpdateRuleFrom("updateRule", ruleId, updates)

enableRule(ruleId) == UpdateRuleFrom("enableRule", ruleId, [enabled |-> TRUE])

disableRule(ruleId) == UpdateRuleFrom("disableRule", ruleId, [enabled |-> FALSE])

onRuleExecution(callback) ==
  /\ CanCall("onRuleExecution")
  /\ Len(executionCallbacks) < config.callbacks
  /\ executionCallbacks' = Append(executionCallbacks, callback)
  /\ result' = Completed("onRuleExecution", JUndef)
  /\ Settle
  /\ UNCHANGED <<rules, lastExecution, stack, passCount, now, clock, config,
                 evalIn, evalOut,
                 deviceCommands, managedDevices, control,
                 baseDevices, isRunning>>

\* The object of the caller and the copy the table keeps are two objects;
\* the pass is handed the object of the caller.
updateDeviceData(deviceData) ==
  /\ CanTrigger("updateDeviceData")
  /\ LET caller == Len(LiveHeap) + 1
         stored == Len(LiveHeap) + 2
     IN /\ heap' = LiveHeap \o <<deviceData, [deviceData EXCEPT !.timestamp = now]>>
        /\ devices' = MapSet(LiveDevices, deviceData.deviceId, stored)
        /\ StartPass("updateDeviceData", caller)
  /\ UNCHANGED <<rules, lastExecution, executionCallbacks, now, clock, config,
                 evalIn, evalOut,
                 deviceCommands, managedDevices, control,
                 baseDevices, isRunning>>

\* markDeviceOffline without its call of evaluateRules
markDeviceOfflineUnevaluated(deviceId) ==
  /\ CanTrigger("markDeviceOffline")
  /\ heap' = (IF MapHas(devices, deviceId)
              THEN [LiveHeap EXCEPT ![MapGet(LiveDevices, deviceId)].online = FALSE,
                                    ![MapGet(LiveDevices, deviceId)].timestamp = now]
              ELSE LiveHeap)
  /\ devices' = LiveDevices
  /\ log' = LiveLog
  /\ result' = Completed("markDeviceOffline", JUndef)
  /\ UNCHANGED <<rules, lastExecution, executionCallbacks, stack, passCount, now,
                 clock, config, evalIn, evalOut,
                 deviceCommands, managedDevices, control,
                 baseDevices, isRunning>>

\* markDeviceOffline without its test `if (device)`: the assignment to
\* device.online raises a TypeError when the device is not in the table
markDeviceOfflineUnguarded(deviceId) ==
  /\ CanTrigger("markDeviceOffline")
  /\ IF ~MapHas(devices, deviceId)
     THEN /\ result' = Failed("markDeviceOffline")
          /\ Settle
          /\ UNCHANGED <<stack, passCount,
                         baseDevices, isRunning>>
     ELSE LET device == MapGet(LiveDevices, deviceId)
          IN /\ heap' = [LiveHeap EXCEPT ![device].online = FALSE,
                                         ![device].timestamp = now]
             /\ devices' = LiveDevices
             /\ StartPass("markDeviceOffline", device)
  /\ UNCHANGED <<rules, lastExecution, executionCallbacks, now, clock, config,
                 evalIn, evalOut,
                 deviceCommands, managedDevices, control,
                 baseDevices, isRunning>>

markDeviceOffline(deviceId) ==
  /\ CanTrigger("markDeviceOffline")
  /\ IF ~MapHas(devices, deviceId)
     THEN /\ result' = Completed("markDeviceOffline", JUndef)
          /\ Settle
          /\ UNCHANGED <<stack, passCount,
                         baseDevices, isRunning>>
     ELSE LET device == MapGet(LiveDevices, deviceId)
          IN /\ heap' = [LiveHeap EXCEPT ![device].online = FALSE,
                                         ![device].timestamp = now]
             /\ devices' = LiveDevices
             /\ StartPass("markDeviceOffline", device)
  /\ UNCHANGED <<rules, lastExecution, executionCallbacks, now, clock, config,
                 evalIn, evalOut,
                 deviceCommands, managedDevices, control,
                 baseDevices, isRunning>>

\* getStats that drops the cooldown timestamps it has reported
getStatsClearing ==
  /\ CanCall("getStats")
  /\ result' = Completed("getStats", JObj(Stats))
  /\ lastExecution' = <<>>
  /\ Settle
  /\ UNCHANGED <<rules, executionCallbacks, stack, passCount, now,
                 clock, config, evalIn, evalOut,
                 deviceCommands, managedDevices, control,
                 baseDevices, isRunning>>

getStats ==
  /\ CanCall("getStats")
  /\ result' = Completed("getStats", JObj(Stats))
  /\ Settle
  /\ UNCHANGED <<rules, lastExecution, executionCallbacks, stack, passCount, now,
                 clock, config, evalIn, evalOut,
                 deviceCommands, managedDevices, control,
                 baseDevices, isRunning>>

(***************************************************************************)
(* The loop of evaluateRules, one rule at a time                           *)
(***************************************************************************)
InLoop == stack # <<>> /\ Top.phase = "rules"

CurrentRule == Top.enabledRules[Top.i]

SetTop(frame) == stack' = [stack EXCEPT ![Len(stack)] = frame]

Pop == stack' = SubSeq(stack, 1, Len(stack) - 1)

\* the loop is over: the public method returns
PassReturns ==
  /\ InLoop /\ Top.i > Len(Top.enabledRules)
  /\ Pop
  /\ result' = Completed(Top.op, JUndef)
  /\ UNCHANGED <<rules, devices, lastExecution, executionCallbacks, heap, log,
                 passCount, now, clock, config, evalIn, evalOut,
                 deviceCommands, managedDevices, control,
                 baseDevices, isRunning>>

\* a pass that also passes over the rules that have left the store or been
\* disabled since it started
PassesOverUnlessStored(j) ==
  LET rule == Top.enabledRules[j]
      outcome == evaluateConditions(rule.conditions, heap[Top.trigger])
  IN \/ isInCooldown(rule.id) \/ (~outcome.threw /\ ~outcome.val)
     \/ ~MapHas(rules, rule.id)
     \/ (MapHas(rules, rule.id) /\ ~MapGet(rules, rule.id).enabled)

\* the iteration for the rule at place j of the pass neither fires the rule
\* nor throws
PassesOver(j) ==
  LET rule == Top.enabledRules[j]
      outcome == evaluateConditions(rule.conditions, heap[Top.trigger])
  IN isInCooldown(rule.id) \/ (~outcome.threw /\ ~outcome.val)

\* the first place from Top.i on whose iteration fires or throws, or the end
NextDecisive ==
  CHOOSE j \in Top.i..(Len(Top.enabledRules) + 1) :
    /\ j <= Len(Top.enabledRules) => ~PassesOver(j)
    /\ \A k \in Top.i..(j - 1) : PassesOver(k)

\* the iterations up to the next rule that fires or throws: rules in
\* cooldown and rules whose conditions do not hold (one reading of the clock)
RulesPassedOver ==
  /\ InLoop /\ Top.i <= Len(Top.enabledRules)
  /\ PassesOver(Top.i)
  /\ SetTop([Top EXCEPT !.i = NextDecisive])
  /\ UNCHANGED <<rules, devices, lastExecution, executionCallbacks, heap, log,
                 passCount, result, now, clock, config, evalIn, evalOut,
                 deviceCommands, managedDevices, control,
                 baseDevices, isRunning>>

\* nothing between evaluateCondition and the caller of the public method
\* catches: the pass is abandoned
RuleEvaluationThrows ==
  /\ InLoop /\ Top.i <= Len(Top.enabledRules)
  /\ ~isInCooldown(CurrentRule.id)
  /\ evaluateConditions(CurrentRule.conditions, heap[Top.trigger]).threw
  /\ Pop
  /\ result' = Failed(Top.op)
  /\ UNCHANGED <<rules, devices, lastExecution, executionCallbacks, heap, log,
                 passCount, now, clock, config, evalIn, evalOut,
                 deviceCommands, managedDevices, control,
                 baseDevices, isRunning>>

\* executeRule without its first statement
MarkExecutionMissing(ruleId) == lastExecution

\* this.lastExecution.set(rule.id, new Date())
MarkExecution(ruleId) == MapSet(lastExecution, ruleId, now)

\* executeRule up to its loop over the callbacks
executeRule ==
  /\ InLoop /\ Top.i <= Len(Top.enabledRules)
  /\ ~isInCooldown(CurrentRule.id)
  /\ LET outcome == evaluateConditions(CurrentRule.conditions, heap[Top.trigger])
     IN ~outcome.threw /\ outcome.val
  /\ lastExecution' = MarkExecution(CurrentRule.id)
  /\ SetTop([Top EXCEPT !.phase = "callbacks", !.cb = 1,
                        !.context = [rule |-> CurrentRule,
                                     triggerDevice |-> Top.trigger,
                                     allDevices |-> devices,
                                     timestamp |-> now]])
  /\ UNCHANGED <<rules, devices, executionCallbacks, heap, log, passCount,
                 result, now, clock, config, evalIn, evalOut,
                 deviceCommands, managedDevices, control,
                 baseDevices, isRunning>>

InCallbacks == stack # <<>> /\ Top.phase = "callbacks"

\* the loop over the callbacks taking them last registered first
InvokeCallbackReversed ==
  /\ InCallbacks /\ Top.cb <= Len(executionCallbacks)
  /\ log' = Append(log, [pass |-> Top.id, i |-> Top.i, cb |-> Top.cb,
                         callback |-> executionCallbacks[Len(executionCallbacks) + 1 - Top.cb],
                         context |-> Top.context,
                         actions |-> Top.context.rule.actions,
                         outcome |-> "running"])
  /\ SetTop([Top EXCEPT !.phase = "incallback"])
  /\ UNCHANGED <<rules, devices, lastExecution, executionCallbacks, heap,
                 passCount, result, now, clock, config, evalIn, evalOut,
                 deviceCommands, managedDevices, control,
                 baseDevices, isRunning>>

\* callback(context, rule.actions)
InvokeCallback ==
  /\ InCallbacks /\ Top.cb <= Len(executionCallbacks)
  /\ log' = Append(log, [pass |-> Top.id, i |-> Top.i, cb |-> Top.cb,
                         callback |-> executionCallbacks[Top.cb],
                         context |-> Top.context,
                         actions |-> Top.context.rule.actions,
                         outcome |-> "running"])
  /\ SetTop([Top EXCEPT !.phase = "incallback"])
  /\ UNCHANGED <<rules, devices, lastExecution, executionCallbacks, heap,
                 passCount, result, now, clock, config, evalIn, evalOut,
                 deviceCommands, managedDevices, control,
                 baseDevices, isRunning>>

\* the log entry of the callback that runs in the innermost pass
Running ==
  CHOOSE k \in 1..Len(log) :
    log[k].pass = Top.id /\ log[k].i = Top.i /\ log[k].cb = Top.cb

\* the exception of a callback ending executeRule and the loop of the pass
AfterThrowAbandons(frame) ==
  [frame EXCEPT !.phase = "rules", !.i = Len(frame.enabledRules) + 1,
                !.context = NoContext, !.cb = 0]

\* where executeRule goes on after a callback that threw
AfterThrow(frame) == [frame EXCEPT !.phase = "callbacks", !.cb = @ + 1]

CallbackReturns ==
  /\ stack # <<>> /\ Top.phase = "incallback"
  /\ log' = [log EXCEPT ![Running].outcome = "returned"]
  /\ SetTop([Top EXCEPT !.phase = "callbacks", !.cb = @ + 1])
  /\ UNCHANGED <<rules, devices, lastExecution, executionCallbacks, heap,
                 passCount, result, now, clock, config, evalIn, evalOut,
                 deviceCommands, managedDevices, control,
                 baseDevices, isRunning>>

\* try { callback(...) } catch (error) { console.error(...) }
CallbackThrows ==
  /\ stack # <<>> /\ Top.phase = "incallback"
  /\ log' = [log EXCEPT ![Running].outcome = "threw"]
  /\ SetTop(AfterThrow(Top))
  /\ UNCHANGED <<rules, devices, lastExecution, executionCallbacks, heap,
                 passCount, result, now, clock, config, evalIn, evalOut,
                 deviceCommands, managedDevices, control,
                 baseDevices, isRunning>>

\* executeRule returns into the loop of evaluateRules
RuleExecuted ==
  /\ InCallbacks /\ Top.cb > Len(executionCallbacks)
  /\ SetTop([Top EXCEPT !.phase = "rules", !.i = @ + 1, !.context = NoContext, !.cb = 0])
  /\ UNCHANGED <<rules, devices, lastExecution, executionCallbacks, heap, log,
                 passCount, result, now, clock, config, evalIn, evalOut,
                 deviceCommands, managedDevices, control,
                 baseDevices, isRunning>>

\* a millisecond passes
Tick ==
  /\ now < config.horizon
  /\ now' = now + 1
  /\ Settle
  /\ result' = (IF stack = <<>> THEN NoResult ELSE result)
  /\ passCount' = (IF stack = <<>> THEN 0 ELSE passCount)
  /\ UNCHANGED <<rules, lastExecution, executionCallbacks, stack, clock,
                 config, evalIn, evalOut,
                 deviceCommands, managedDevices, control,
                 baseDevices, isRunning>>

NoEvaluation == [done |-> FALSE]

\* the control centre after its constructor: automation enabled, no rule
\* actions in progress
NewControl == [enableAutomation |-> TRUE, executions |-> <<>>]

\* the state after `new RuleEngine()`
Constructed ==
  /\ rules = loadDefaultRules
  /\ devices = <<>>
  /\ lastExecution = <<>>
  /\ executionCallbacks = <<>>
  /\ heap = <<>>
  /\ stack = <<>>
  /\ log = <<>>
  /\ passCount = 0
  /\ result = NoResult

Init ==
  /\ Constructed
  /\ now = 0
  /\ clock \in StartClocks
  /\ config \in Configs
  /\ evalIn = NoEvaluation
  /\ evalOut = NoEvaluation
  /\ deviceCommands = <<>>
  /\ managedDevices = <<>>
  /\ control = NewControl
  /\ baseDevices = <<>>
  /\ isRunning = FALSE

Next ==
  \/ \E rule \in config.rules : addRule(rule)
  \/ \E ruleId \in RuleIdInputs : removeRule(ruleId)
  \/ \E ruleId \in RuleIdInputs, updates \in config.updates : updateRule(ruleId, updates)
  \/ \E ruleId \in RuleIdInputs : enableRule(ruleId)
  \/ \E ruleId \in RuleIdInputs : disableRule(ruleId)
  \/ onRuleExecution(CallbackNames[Len(executionCallbacks) + 1])
  \/ \E deviceData \in config.deviceData : updateDeviceData(deviceData)
  \/ \E deviceId \in config.deviceIds : markDeviceOffline(deviceId)
  \/ PassReturns
  \/ RulesPassedOver
  \/ RuleEvaluationThrows
  \/ executeRule
  \/ InvokeCallback
  \/ CallbackReturns
  \/ CallbackThrows
  \/ RuleExecuted
  \/ Tick

Spec == Init /\ [][Next]_vars

(***************************************************************************)
(* The rule store on its own: the calls of its five methods on a new       *)
(* engine, in any order                                                    *)
(***************************************************************************)
InitStore ==
  /\ Constructed
  /\ now = 0
  /\ clock \in StartClocks
  /\ config = StoreConfig
  /\ evalIn = NoEvaluation
  /\ evalOut = NoEvaluation
  /\ deviceCommands = <<>>
  /\ managedDevices = <<>>
  /\ control = NewControl
  /\ baseDevices = <<>>
  /\ isRunning = FALSE

NextStore ==
  \/ \E rule \in config.rules : addRule(rule)
  \/ \E ruleId \in RuleIdInputs : removeRule(ruleId)
  \/ \E ruleId \in RuleIdInputs, updates \in config.updates : updateRule(ruleId, updates)
  \/ \E ruleId \in RuleIdInputs : enableRule(ruleId)
  \/ \E ruleId \in RuleIdInputs : disableRule(ruleId)

SpecStore == InitStore /\ [][NextStore]_vars

(***************************************************************************)
(* The device table and the statistics: reports of two devices, rules      *)
(* coming, going and being disabled, and getStats, called by the owner of  *)
(* the engine and by a callback                                            *)
(***************************************************************************)
InitTable ==
  /\ Constructed
  /\ now = 0
  /\ clock \in StartClocks
  /\ config = TableConfig
  /\ evalIn = NoEvaluation
  /\ evalOut = NoEvaluation
  /\ deviceCommands = <<>>
  /\ managedDevices = <<>>
  /\ control = NewControl
  /\ baseDevices = <<>>
  /\ isRunning = FALSE

NextTable ==
  \/ \E rule \in config.rules : addRule(rule)
  \/ \E ruleId \in RuleIdInputs : removeRule(ruleId)
  \/ \E ruleId \in RuleIdInputs : disableRule(ruleId)
  \/ onRuleExecution(CallbackNames[Len(executionCallbacks) + 1])
  \/ \E deviceData \in config.deviceData : updateDeviceData(deviceData)
  \/ \E deviceId \in config.deviceIds : markDeviceOffline(deviceId)
  \/ getStats
  \/ PassReturns
  \/ RulesPassedOver
  \/ executeRule
  \/ InvokeCallback
  \/ CallbackReturns
  \/ RuleExecuted

SpecTable == InitTable /\ [][NextTable]_vars

(***************************************************************************)
(* The rule store during a pass: the calls of addRule, removeRule,         *)
(* enableRule and disableRule by the owner of the engine and by a callback *)
(***************************************************************************)
InitPass ==
  /\ Constructed
  /\ now = 0
  /\ clock \in StartClocks
  /\ config = PassConfig
  /\ evalIn = NoEvaluation
  /\ evalOut = NoEvaluation
  /\ deviceCommands = <<>>
  /\ managedDevices = <<>>
  /\ control = NewControl
  /\ baseDevices = <<>>
  /\ isRunning = FALSE

NextPass ==
  \/ \E rule \in config.rules : addRule(rule)
  \/ \E ruleId \in RuleIdInputs : removeRule(ruleId)
  \/ \E ruleId \in RuleIdInputs : enableRule(ruleId)
  \/ \E ruleId \in RuleIdInputs : disableRule(ruleId)
  \/ onRuleExecution(CallbackNames[Len(executionCallbacks) + 1])
  \/ \E deviceData \in config.deviceData : updateDeviceData(deviceData)
  \/ PassReturns
  \/ RulesPassedOver
  \/ executeRule
  \/ InvokeCallback
  \/ CallbackReturns
  \/ RuleExecuted

SpecPass == InitPass /\ [][NextPass]_vars

(***************************************************************************)
(* The control centre (src/control/control-center.ts, kept as              *)
(* src/unnamed/part_006): its engine, the callback it registers with it,   *)
(* and the commands it sends to devices. Its MQTT client is connected.     *)
(***************************************************************************)
\* this.ruleEngine.getDevices(): the class RuleEngine declares no getDevices,
\* so the property is undefined and the call raises a TypeError
getDevices == Throws

\* buildTopic(topicStructure.home, topicStructure.command, deviceId)
CommandTopic(deviceId) == "home" \o "/" \o "command" \o "/" \o deviceId

findRelatedDevice(triggerDevice, action) ==
  LET allDevices == getDevices
  IN IF allDevices.threw THEN Throws
     ELSE LET roomDevices ==
                SelectSeq(allDevices.val, LAMBDA e : e.val.room = triggerDevice.room)
              lights ==
                SelectSeq(roomDevices, LAMBDA e : StringIncludes(e.val.deviceType, "light"))
              light == IF lights = <<>> THEN JUndef ELSE JStr(lights[1].key)
          IN IF StringIncludes(triggerDevice.deviceType, "motion") THEN Returns(light)
             ELSE IF \/ StringIncludes(triggerDevice.deviceType, "door")
                     \/ StringIncludes(triggerDevice.deviceType, "window")
               THEN Returns(light)
             ELSE Returns(JUndef)

CommandsKept == 10

\* sendDeviceCommand: the message is published on the command topic of the
\* device and kept among the last commands of the device
sendDeviceCommand(commands, deviceId, command) ==
  LET commandMessage == [topic |-> CommandTopic(deviceId), command |-> command,
                         source |-> "control-center", sent |-> now]
      sent == Append(IF MapHas(commands, deviceId) THEN MapGet(commands, deviceId)
                     ELSE <<>>, commandMessage)
      kept == IF Len(sent) > CommandsKept
              THEN SubSeq(sent, Len(sent) - CommandsKept + 1, Len(sent))
              ELSE sent
  IN MapSet(commands, deviceId, kept)

\* what became of one action: the commands kept, and whether it threw
ActionResult(commands, threw) == [commands |-> commands, threw |-> threw]

\* executeDeviceCommand: an exception of findRelatedDevice leaves it, and
\* nothing is sent
executeDeviceCommand(commands, action, triggerDevice) ==
  IF ~Truthy(action.command) THEN ActionResult(commands, FALSE)
  ELSE LET targetDeviceId ==
             IF Truthy(action.deviceId) THEN Returns(action.deviceId)
             ELSE findRelatedDevice(triggerDevice, action)
       IN IF targetDeviceId.threw THEN ActionResult(commands, TRUE)
          ELSE IF Truthy(targetDeviceId.val)
            THEN ActionResult(
                   sendDeviceCommand(commands, targetDeviceId.val.s, action.command), FALSE)
          ELSE ActionResult(commands, FALSE)

\* executeAction, as far as the commands to devices go; notifications, log
\* messages and webhooks send no command and do not throw
executeAction(commands, action, triggerDevice) ==
  IF action.type = "device_command"
  THEN executeDeviceCommand(commands, action, triggerDevice)
  ELSE ActionResult(commands, FALSE)

\* when the loop of executeRuleActions goes on after `await executeAction`:
\* at the end of the timer of a delay action with a delayMs, else as soon as
\* the call in progress is over (-1)
WakeAfter(action) ==
  IF action.type = "delay" /\ Truthy(action.delayMs) THEN now + action.delayMs.n ELSE -1

\* a loop without the try/catch around executeAction: an action that throws
\* ends the loop
TurnOfUncaught(e) ==
  LET action == e.actions[e.next]
      done == executeAction(deviceCommands, action, e.triggerDevice)
  IN [commands |-> done.commands,
      threw |-> done.threw,
      execution |-> [e EXCEPT !.next = IF done.threw THEN Len(e.actions) + 1 ELSE @ + 1,
                              !.wake = WakeAfter(action)]]

\* one turn of the loop of executeRuleActions for the execution e: the
\* action at e.next is executed inside try/catch, and the loop awaits it
TurnOf(e) ==
  LET action == e.actions[e.next]
      done == executeAction(deviceCommands, action, e.triggerDevice)
  IN [commands |-> done.commands,
      threw |-> done.threw,
      execution |-> [e EXCEPT !.next = @ + 1, !.wake = WakeAfter(action)]]

\* the loop is over once every action has had its turn
Unfinished(e) == e.next <= Len(e.actions)

\* the callback of the control centre: executeRuleActions is called, runs up
\* to its first await and returns its promise, which the callback drops
executeRuleActions ==
  /\ stack # <<>> /\ Top.phase = "incallback"
  /\ LET e == [rule |-> log[Running].context.rule.id,
               triggerDevice |-> heap[log[Running].context.triggerDevice],
               actions |-> log[Running].actions, next |-> 1, wake |-> -1]
     IN IF e.actions = <<>>
        THEN UNCHANGED <<deviceCommands, control,
                         baseDevices, isRunning>>
        ELSE /\ deviceCommands' = TurnOf(e).commands
             /\ control' =
                  [control EXCEPT !.executions =
                     IF Unfinished(TurnOf(e).execution)
                     THEN Append(@, TurnOf(e).execution) ELSE @]
  /\ log' = [log EXCEPT ![Running].outcome = "returned"]
  /\ SetTop([Top EXCEPT !.phase = "callbacks", !.cb = @ + 1])
  /\ UNCHANGED <<rules, devices, lastExecution, executionCallbacks, heap,
                 passCount, result, now, clock, config, evalIn, evalOut,
                 managedDevices,
                 baseDevices, isRunning>>

\* an execution whose await has ended and whose loop has not gone on
Resumable(e) == e.wake = -1

\* nothing but the event loop is running, and no promise is waiting to go on
Quiet == stack = <<>> /\ \A k \in 1..Len(control.executions) : ~Resumable(control.executions[k])

\* the loop of executeRuleActions goes on for the k-th execution: after an
\* await that has ended, before anything else the event loop has, or when
\* the timer of its delay is due
continueRuleActions(k) ==
  /\ stack = <<>>
  /\ LET e == control.executions[k]
         others == SubSeq(control.executions, 1, k - 1)
                     \o SubSeq(control.executions, k + 1, Len(control.executions))
     IN /\ \/ Resumable(e)
           \/ Quiet /\ now >= e.wake
        /\ deviceCommands' = TurnOf(e).commands
        /\ control' =
             [control EXCEPT !.executions =
                IF Unfinished(TurnOf(e).execution)
                THEN Append(others, TurnOf(e).execution) ELSE others]
  /\ result' = NoResult
  /\ Settle
  /\ UNCHANGED <<rules, lastExecution, executionCallbacks, stack, passCount,
                 now, clock, config, evalIn, evalOut, managedDevices,
                 baseDevices, isRunning>>

\* the state after `new ControlCenter()`: a new engine with the callback of
\* the control centre registered
ControlConstructed ==
  /\ rules = loadDefaultRules
  /\ devices = <<>>
  /\ lastExecution = <<>>
  /\ executionCallbacks = <<"executeRuleActions">>
  /\ heap = <<>>
  /\ stack = <<>>
  /\ log = <<>>
  /\ passCount = 0
  /\ result = NoResult
  /\ now = 0
  /\ clock \in StartClocks
  /\ evalIn = NoEvaluation
  /\ evalOut = NoEvaluation
  /\ deviceCommands = <<>>
  /\ managedDevices = <<>>
  /\ control = NewControl
  /\ baseDevices = <<>>
  /\ isRunning = FALSE

InitControl ==
  /\ ControlConstructed
  /\ config = ControlConfig

NextControl ==
  \/ \E rule \in config.rules : addRule(rule)
  \/ \E ruleId \in RuleIdInputs : removeRule(ruleId)
  \/ \E deviceData \in config.deviceData : updateDeviceData(deviceData)
  \/ PassReturns
  \/ RulesPassedOver
  \/ executeRule
  \/ InvokeCallback
  \/ executeRuleActions
  \/ RuleExecuted

SpecControl == InitControl /\ [][NextControl]_vars

(***************************************************************************)
(* The control centre and the messages of the broker: device data and     *)
(* device status messages, automation switched off and on, and a rule on  *)
(* a device being offline that the owner adds through getRuleEngine()      *)
(***************************************************************************)
AutomationConfig ==
  [rules |-> {TestRule("hot", 100, JUndef, <<TemperatureAbove30>>),
              TestRule("offline-alert", 50, JUndef, <<DeviceOffline("d1")>>)},
   deviceData |-> {DeviceInput("d1", Mild, TRUE), DeviceInput("d1", Hot, TRUE)},
   deviceIds |-> {"d1", "d2"},
   updates |-> {},
   callbacks |-> 1,
   reentrant |-> {},
   horizon |-> 0]

\* handleMessage for a message on home/<room>/<device>/<metric>
handleMessage(deviceData) ==
  /\ Quiet
  /\ IF control.enableAutomation
     THEN updateDeviceData(deviceData)
     ELSE /\ result' = Completed("handleMessage", JUndef)
          /\ Settle
          /\ UNCHANGED <<rules, lastExecution, executionCallbacks, stack, passCount,
                         now, clock, config, evalIn, evalOut, deviceCommands,
                         managedDevices, control,
                         baseDevices, isRunning>>

\* handleMessage for a message on home/status/<device>: handleDeviceStatus
handleDeviceStatus(deviceId, online) ==
  /\ Quiet
  /\ IF online = FALSE
     THEN markDeviceOffline(deviceId)
     ELSE /\ result' = Completed("handleDeviceStatus", JUndef)
          /\ Settle
          /\ UNCHANGED <<rules, lastExecution, executionCallbacks, stack, passCount,
                         now, clock, config, evalIn, evalOut, deviceCommands,
                         managedDevices, control,
                         baseDevices, isRunning>>

SetAutomation(method, enabled) ==
  /\ Quiet
  /\ control' = [control EXCEPT !.enableAutomation = enabled]
  /\ result' = Completed(method, JUndef)
  /\ Settle
  /\ UNCHANGED <<rules, lastExecution, executionCallbacks, stack, passCount,
                 now, clock, config, evalIn, evalOut, deviceCommands,
                 managedDevices,
                 baseDevices, isRunning>>

enableAutomation == SetAutomation("enableAutomation", TRUE)

disableAutomation == SetAutomation("disableAutomation", FALSE)

InitAutomation ==
  /\ ControlConstructed
  /\ config = AutomationConfig

NextAutomation ==
  \/ \E rule \in config.rules : addRule(rule)
  \/ \E deviceData \in config.deviceData : handleMessage(deviceData)
  \/ \E deviceId \in config.deviceIds, online \in BOOLEAN : handleDeviceStatus(deviceId, online)
  \/ enableAutomation
  \/ disableAutomation
  \/ PassReturns
  \/ RulesPassedOver
  \/ executeRule
  \/ InvokeCallback
  \/ executeRuleActions
  \/ RuleExecuted

SpecAutomation == InitAutomation /\ [][NextAutomation]_vars

(***************************************************************************)
(* The actions of rule firings: a rule on motion whose first command names *)
(* no device and whose second names the light, a rule on motion clearing   *)
(* that waits and then commands the light, the default rules, the clock    *)
(***************************************************************************)
Wait == 2              \* the delayMs of the delay action of the test rule

MotionClear == [Motion EXCEPT !.value = JObj([detected |-> JBool(FALSE)])]

ToLight(command) ==
  [DeviceCommand(JObj([command |-> JStr(command)])) EXCEPT !.deviceId = JStr("light-1")]

ActionsConfig ==
  [rules |-> {[TestRule("lights-on", 100, JNum(60000),
                 <<Condition("sensor_value", JStr("detected"), "=", JBool(TRUE))>>)
                 EXCEPT !.actions = <<DeviceCommand(JObj([command |-> JStr("turnOn")])),
                                      ToLight("turnOn")>>],
              [TestRule("lights-off", 90, JNum(60000),
                 <<Condition("sensor_value", JStr("detected"), "=", JBool(FALSE))>>)
                 EXCEPT !.actions = <<DelayAction(Wait), ToLight("turnOff")>>]},
   deviceData |-> {Motion, MotionClear},
   deviceIds |-> {},
   updates |-> {},
   callbacks |-> 1,
   reentrant |-> {},
   horizon |-> Wait]

InitActions ==
  /\ ControlConstructed
  /\ config = ActionsConfig

NextActions ==
  \/ \E rule \in config.rules : addRule(rule)
  \/ \E deviceData \in config.deviceData : handleMessage(deviceData)
  \/ PassReturns
  \/ RulesPassedOver
  \/ executeRule
  \/ InvokeCallback
  \/ executeRuleActions
  \/ \E k \in 1..Len(control.executions) : continueRuleActions(k)
  \/ RuleExecuted
  \/ Tick

SpecActions == InitActions /\ [][NextActions]_vars

(***************************************************************************)
(* The device manager (src/devices/device-manager.ts) and the devices it   *)
(* creates (src/devices/base-device.ts). A device is its id, type, room,   *)
(* name and state.online; `removing` marks a device whose removeDevice     *)
(* awaits the end of its disconnect().                                     *)
(***************************************************************************)
MaxDevices == 3        \* devices managed at a time

\* the deviceType the class of a DeviceConfig.type passes to BaseDevice
DeviceTypeOf(type) ==
  CASE type = "temperature-humidity" -> "temperature-humidity-sensor"
    [] type = "motion" -> "motion-detector"
    [] type = "door" -> "door-sensor"
    [] type = "window" -> "window-sensor"
    [] type = "smart-light" -> "smart-light"
    [] type = "smart-light-color" -> "smart-light"
    [] type = "energy-meter" -> "energy-meter"

\* `${deviceType}_${room}_${name}_${uuidv4().slice(0, 8)}`
DeviceIdOf(deviceType, room, name, uuid) ==
  deviceType \o "_" \o room \o "_" \o name \o "_" \o uuid

\* the DeviceConfigs handed to createDevice, and the uuids drawn
DeviceConfigs ==
  {[type |-> t, room |-> r, name |-> "n"] :
     t \in {"smart-light", "motion"}, r \in {"living-room", "constructor"}}

Uuids == {"1", "2"}

\* createDevice up to its first await: the device is constructed, offline,
\* and put into the map (the uuid is one that no managed device has)
createDevice(deviceConfig, uuid) ==
  LET deviceType == DeviceTypeOf(deviceConfig.type)
      deviceId == DeviceIdOf(deviceType, deviceConfig.room, deviceConfig.name, uuid)
  IN /\ Len(managedDevices) < MaxDevices
     /\ ~MapHas(managedDevices, deviceId)
     /\ managedDevices' =
          MapSet(managedDevices, deviceId,
                 [deviceId |-> deviceId, deviceType |-> deviceType,
                  room |-> deviceConfig.room, name |-> deviceConfig.name,
                  online |-> FALSE, removing |-> FALSE])
     /\ result' = NoResult
     /\ UNCHANGED <<rules, devices, lastExecution, executionCallbacks, heap, stack,
                    log, passCount, now, clock, config, evalIn, evalOut,
                    deviceCommands, control,
                    baseDevices, isRunning>>

\* the 'connect' event of the MQTT client of a device: state.online = true
deviceConnected(deviceId) ==
  /\ MapHas(managedDevices, deviceId)
  /\ ~MapGet(managedDevices, deviceId).online
  /\ ~MapGet(managedDevices, deviceId).removing
  /\ managedDevices' = MapSet(managedDevices, deviceId,
                              [MapGet(managedDevices, deviceId) EXCEPT !.online = TRUE])
  /\ result' = NoResult
  /\ UNCHANGED <<rules, devices, lastExecution, executionCallbacks, heap, stack,
                 log, passCount, now, clock, config, evalIn, evalOut,
                 deviceCommands, control,
                 baseDevices, isRunning>>

\* the 'close' event of the MQTT client of a device: state.online = false
deviceClosed(deviceId) ==
  /\ MapHas(managedDevices, deviceId)
  /\ MapGet(managedDevices, deviceId).online
  /\ managedDevices' = MapSet(managedDevices, deviceId,
                              [MapGet(managedDevices, deviceId) EXCEPT !.online = FALSE])
  /\ result' = NoResult
  /\ UNCHANGED <<rules, devices, lastExecution, executionCallbacks, heap, stack,
                 log, passCount, now, clock, config, evalIn, evalOut,
                 deviceCommands, control,
                 baseDevices, isRunning>>

\* removeDevice up to the end of its await: false for an id that is not
\* managed, else disconnect() sets state.online = false
removeDevice(deviceId) ==
  /\ IF ~MapHas(managedDevices, deviceId)
     THEN /\ managedDevices' = managedDevices
          /\ result' = Completed("removeDevice", JBool(FALSE))
     ELSE /\ ~MapGet(managedDevices, deviceId).removing
          /\ managedDevices' =
               MapSet(managedDevices, deviceId,
                      [MapGet(managedDevices, deviceId)
                         EXCEPT !.online = FALSE, !.removing = TRUE])
          /\ result' = NoResult
  /\ UNCHANGED <<rules, devices, lastExecution, executionCallbacks, heap, stack,
                 log, passCount, now, clock, config, evalIn, evalOut,
                 deviceCommands, control,
                 baseDevices, isRunning>>

\* removeDevice after its await: this.devices.delete(deviceId); return true
removeDeviceCompletes(deviceId) ==
  /\ MapHas(managedDevices, deviceId)
  /\ MapGet(managedDevices, deviceId).removing
  /\ managedDevices' = MapDelete(managedDevices, deviceId)
  /\ result' = Completed("removeDevice", JBool(TRUE))
  /\ UNCHANGED <<rules, devices, lastExecution, executionCallbacks, heap, stack,
                 log, passCount, now, clock, config, evalIn, evalOut,
                 deviceCommands, control,
                 baseDevices, isRunning>>

\* Array.from(this.devices.values()).filter(device => device.getRoom() === room)
getDevicesByRoom(room) ==
  SelectSeq(MapValues(managedDevices), LAMBDA device : device.room = room)

getDevicesByType(type) ==
  SelectSeq(MapValues(managedDevices), LAMBDA device : device.deviceType = type)

\* the function-valued properties an object literal inherits from
\* Object.prototype, and what String() makes of them
InheritedFunctions ==
  {"constructor", "hasOwnProperty", "isPrototypeOf", "propertyIsEnumerable",
   "toLocaleString", "toString", "valueOf"}

FunctionSource(key) ==
  "function " \o (IF key = "constructor" THEN "Object" ELSE key) \o "() { [native code] }"

\* counts[key] = (counts[key] || 0) + 1 on an object literal: an own
\* property is a number or a string, a property that is not an own one may be
\* inherited, and + concatenates as soon as one side is not a number
CountUp(counts, key) ==
  LET next ==
        IF key \in DOMAIN counts
        THEN IF counts[key].t = "number" THEN JNum(counts[key].n + 1)
             ELSE JStr(counts[key].s \o "1")
        ELSE IF key \in InheritedFunctions THEN JStr(FunctionSource(key) \o "1")
        ELSE JNum(1)
  IN [k \in (DOMAIN counts) \cup {key} |-> IF k = key THEN next ELSE counts[k]]

\* the loop of getDeviceStatus over the first n devices
RECURSIVE StatusUpTo(_)
StatusUpTo(n) ==
  IF n = 0
  THEN [totalDevices |-> Len(managedDevices), onlineDevices |-> 0, offlineDevices |-> 0,
        devicesByType |-> <<>>, devicesByRoom |-> <<>>, devices |-> <<>>]
  ELSE LET status == StatusUpTo(n - 1)
           device == managedDevices[n].val
       IN [totalDevices |-> status.totalDevices,
           onlineDevices |-> status.onlineDevices + (IF device.online THEN 1 ELSE 0),
           offlineDevices |-> status.offlineDevices + (IF device.online THEN 0 ELSE 1),
           devicesByType |-> CountUp(status.devicesByType, device.deviceType),
           devicesByRoom |-> CountUp(status.devicesByRoom, device.room),
           devices |-> Append(status.devices,
                              [id |-> device.deviceId, type |-> device.deviceType,
                               room |-> device.room, name |-> device.name,
                               online |-> device.online])]

DeviceStatus == StatusUpTo(Len(managedDevices))

getDeviceStatus ==
  /\ result' = Completed("getDeviceStatus", JObj(DeviceStatus))
  /\ UNCHANGED <<rules, devices, lastExecution, executionCallbacks, heap, stack,
                 log, passCount, now, clock, config, evalIn, evalOut,
                 deviceCommands, managedDevices, control,
                 baseDevices, isRunning>>

\* the ids handed to removeDevice
DeviceIdInputs ==
  {DeviceIdOf(DeviceTypeOf(c.type), c.room, c.name, u) : c \in DeviceConfigs, u \in Uuids}

\* the state after `new DeviceManager()`
InitManager ==
  /\ Constructed
  /\ now = 0
  /\ clock \in StartClocks
  /\ config = StoreConfig
  /\ evalIn = NoEvaluation
  /\ evalOut = NoEvaluation
  /\ deviceCommands = <<>>
  /\ managedDevices = <<>>
  /\ control = NewControl
  /\ baseDevices = <<>>
  /\ isRunning = FALSE

NextManager ==
  \/ \E deviceConfig \in DeviceConfigs, uuid \in Uuids : createDevice(deviceConfig, uuid)
  \/ \E deviceId \in DeviceIdInputs : deviceConnected(deviceId)
  \/ \E deviceId \in DeviceIdInputs : deviceClosed(deviceId)
  \/ \E deviceId \in DeviceIdInputs : removeDevice(deviceId)
  \/ \E deviceId \in DeviceIdInputs : removeDeviceCompletes(deviceId)
  \/ getDeviceStatus

SpecManager == InitManager /\ [][NextManager]_vars

(***************************************************************************)
(* The devices themselves (src/devices/base-device.ts): the MQTT clients a  *)
(* device has created, state.online, the two interval fields and the       *)
(* interval timers of the process that have not been cleared               *)
(***************************************************************************)
MaxClients == 2        \* mqtt.connect calls of one device
MaxTimers == 3         \* setInterval calls of one device

\* the state after `new BaseDevice(...)`; 0 stands for the null of an
\* interval field
NewBaseDevice ==
  [online |-> FALSE, clients |-> <<>>, publishInterval |-> 0,
   heartbeatInterval |-> 0, timers |-> {}, created |-> 0]

\* setInterval: a new timer of the process; its id is device.created + 1
setInterval(device, kind) ==
  [device EXCEPT !.timers = @ \cup {[id |-> device.created + 1, kind |-> kind]},
                 !.created = @ + 1]

clearInterval(device, id) ==
  [device EXCEPT !.timers = {t \in @ : t.id # id}]

\* connect(): this.client = mqtt.connect(...); awaitedBy names the caller
\* that goes on when the promise of connect() resolves
connect(device, awaitedBy) ==
  [device EXCEPT !.clients = Append(@, [state |-> "connecting", awaitedBy |-> awaitedBy])]

startHeartbeat(device) ==
  [setInterval(device, "heartbeat") EXCEPT !.heartbeatInterval = device.created + 1]

startPublishing(device) ==
  LET cleared == IF device.publishInterval # 0
                 THEN clearInterval(device, device.publishInterval) ELSE device
  IN [setInterval(cleared, "publish") EXCEPT !.publishInterval = device.created + 1]

stopPublishing(device) ==
  IF device.publishInterval # 0
  THEN [clearInterval(device, device.publishInterval) EXCEPT !.publishInterval = 0]
  ELSE device

\* disconnect() up to client.end(): the timers of the two fields are
\* cleared, state.online = false, and the client of the device is ended
disconnect(device) ==
  LET published == stopPublishing(device)
      silent == IF published.heartbeatInterval # 0
                THEN [clearInterval(published, published.heartbeatInterval)
                        EXCEPT !.heartbeatInterval = 0]
                ELSE published
  IN [silent EXCEPT
        !.online = FALSE,
        !.clients = IF @ = <<>> THEN @
                    ELSE [@ EXCEPT ![Len(@)] = [@ EXCEPT !.state = "ended"]]]

\* the 'connect' handler of the c-th client of the device, and resolve()
onConnectHandler(device, c) ==
  startHeartbeat([device EXCEPT !.online = TRUE,
                                !.clients[c] = [state |-> "connected", awaitedBy |-> "none"]])

\* startAllDevices from the k-th device of the map on, up to its next await:
\* the first device that is not online is connected
RECURSIVE StartFrom(_, _)
StartFrom(devs, k) ==
  IF k > Len(devs) THEN [devices |-> devs, done |-> TRUE]
  ELSE IF devs[k].val.online THEN StartFrom(devs, k + 1)
  ELSE [devices |-> [devs EXCEPT ![k].val = connect(@, "startAllDevices")],
        done |-> FALSE]

\* no device is beyond the clients and timers of a run
WithinBounds(devs) ==
  \A k \in 1..Len(devs) :
    /\ Len(devs[k].val.clients) <= MaxClients
    /\ devs[k].val.created <= MaxTimers

\* what goes on once `await device.connect()` is over in the caller
AfterConnect(devs, k, awaitedBy) ==
  CASE awaitedBy = "createDevice" ->
         [devices |-> [devs EXCEPT ![k].val = startPublishing(@)], done |-> TRUE]
    [] awaitedBy = "startAllDevices" ->
         StartFrom([devs EXCEPT ![k].val = startPublishing(@)], k + 1)
    [] OTHER -> [devices |-> devs, done |-> FALSE]

\* a call of connect() on the device
callConnect(deviceId) ==
  /\ MapHas(baseDevices, deviceId)
  /\ baseDevices' = MapSet(baseDevices, deviceId, connect(MapGet(baseDevices, deviceId), "none"))
  /\ WithinBounds(baseDevices')
  /\ result' = NoResult
  /\ UNCHANGED <<rules, devices, lastExecution, executionCallbacks, heap, stack,
                 log, passCount, now, clock, config, evalIn, evalOut,
                 deviceCommands, managedDevices, control, isRunning>>

\* the 'connect' event of the c-th client of the device, the first time or
\* after a reconnect, and the caller that awaited connect() going on
onConnect(deviceId, c) ==
  /\ MapHas(baseDevices, deviceId)
  /\ LET k == MapIndex(baseDevices, deviceId)
         device == baseDevices[k].val
     IN /\ c \in 1..Len(device.clients)
        /\ device.clients[c].state \in {"connecting", "reconnecting"}
        /\ LET after == AfterConnect([baseDevices EXCEPT ![k].val = onConnectHandler(device, c)],
                                     k, device.clients[c].awaitedBy)
           IN /\ baseDevices' = after.devices
              /\ result' = IF after.done
                           THEN Completed(device.clients[c].awaitedBy,
                                          IF device.clients[c].awaitedBy = "createDevice"
                                          THEN JStr(deviceId) ELSE JUndef)
                           ELSE NoResult
  /\ WithinBounds(baseDevices')
  /\ UNCHANGED <<rules, devices, lastExecution, executionCallbacks, heap, stack,
                 log, passCount, now, clock, config, evalIn, evalOut,
                 deviceCommands, managedDevices, control, isRunning>>

\* the 'close' event of a connected client: state.online = false, and the
\* client will reconnect
onClose(deviceId, c) ==
  /\ MapHas(baseDevices, deviceId)
  /\ LET device == MapGet(baseDevices, deviceId)
     IN /\ c \in 1..Len(device.clients)
        /\ device.clients[c].state = "connected"
        /\ baseDevices' =
             MapSet(baseDevices, deviceId,
                    [device EXCEPT !.online = FALSE,
                                   !.clients[c].state = "reconnecting"])
  /\ result' = NoResult
  /\ UNCHANGED <<rules, devices, lastExecution, executionCallbacks, heap, stack,
                 log, passCount, now, clock, config, evalIn, evalOut,
                 deviceCommands, managedDevices, control, isRunning>>

\* a call of a method of the device that awaits nothing before its effect
CallOnDevice(method, deviceId, after) ==
  /\ MapHas(baseDevices, deviceId)
  /\ baseDevices' = MapSet(baseDevices, deviceId, after)
  /\ WithinBounds(baseDevices')
  /\ result' = Completed(method, JUndef)
  /\ UNCHANGED <<rules, devices, lastExecution, executionCallbacks, heap, stack,
                 log, passCount, now, clock, config, evalIn, evalOut,
                 deviceCommands, managedDevices, control, isRunning>>

callStartPublishing(deviceId) ==
  CallOnDevice("startPublishing", deviceId, startPublishing(MapGet(baseDevices, deviceId)))

callStopPublishing(deviceId) ==
  CallOnDevice("stopPublishing", deviceId, stopPublishing(MapGet(baseDevices, deviceId)))

callDisconnect(deviceId) ==
  CallOnDevice("disconnect", deviceId, disconnect(MapGet(baseDevices, deviceId)))

\* a process with the BaseDevice objects devs and no manager running
DevicesConstructed(devs) ==
  /\ Constructed
  /\ now = 0
  /\ clock \in StartClocks
  /\ config = StoreConfig
  /\ evalIn = NoEvaluation
  /\ evalOut = NoEvaluation
  /\ deviceCommands = <<>>
  /\ managedDevices = <<>>
  /\ control = NewControl
  /\ baseDevices = devs
  /\ isRunning = FALSE

(***************************************************************************)
(* One device: connect(), the events of its clients, startPublishing,      *)
(* stopPublishing and disconnect in any order                              *)
(***************************************************************************)
InitDevice == DevicesConstructed(<<[key |-> "d1", val |-> NewBaseDevice]>>)

NextDevice ==
  \/ callConnect("d1")
  \/ \E c \in 1..MaxClients : onConnect("d1", c)
  \/ \E c \in 1..MaxClients : onClose("d1", c)
  \/ callStartPublishing("d1")
  \/ callStopPublishing("d1")
  \/ callDisconnect("d1")

SpecDevice == InitDevice /\ [][NextDevice]_vars

(***************************************************************************)
(* The device manager and its devices from creation to stop                *)
(* (device-manager.ts createDevice, startAllDevices, stopAllDevices); the  *)
(* map of the manager is baseDevices                                       *)
(***************************************************************************)
ManagedIds == {"d1", "d2"}

\* createDevice up to `await device.connect()`: the device is constructed,
\* put into the map and connected
createDeviceConnects(deviceId) ==
  /\ ~MapHas(baseDevices, deviceId)
  /\ baseDevices' = MapSet(baseDevices, deviceId, connect(NewBaseDevice, "createDevice"))
  /\ result' = NoResult
  /\ UNCHANGED <<rules, devices, lastExecution, executionCallbacks, heap, stack,
                 log, passCount, now, clock, config, evalIn, evalOut,
                 deviceCommands, managedDevices, control, isRunning>>

\* a call of startAllDevices waits for the 'connect' event of a client
StartInProgress ==
  \E k \in 1..Len(baseDevices) :
    \E c \in 1..Len(baseDevices[k].val.clients) :
      /\ baseDevices[k].val.clients[c].awaitedBy = "startAllDevices"
      /\ baseDevices[k].val.clients[c].state # "ended"

\* startAllDevices up to its first await
startAllDevices ==
  /\ IF isRunning
     THEN /\ UNCHANGED <<baseDevices, isRunning>>
          /\ result' = Completed("startAllDevices", JUndef)
     ELSE /\ ~StartInProgress
          /\ isRunning' = TRUE
          /\ baseDevices' = StartFrom(baseDevices, 1).devices
          /\ WithinBounds(baseDevices')
          /\ result' = IF StartFrom(baseDevices, 1).done
                       THEN Completed("startAllDevices", JUndef) ELSE NoResult
  /\ UNCHANGED <<rules, devices, lastExecution, executionCallbacks, heap, stack,
                 log, passCount, now, clock, config, evalIn, evalOut,
                 deviceCommands, managedDevices, control>>

\* stopAllDevices; the clients end at once, so that the promise of the call
\* resolves in the step of the call
stopAllDevices ==
  /\ IF ~isRunning
     THEN UNCHANGED <<baseDevices, isRunning>>
     ELSE /\ isRunning' = FALSE
          /\ baseDevices' =
               [k \in 1..Len(baseDevices) |->
                  [baseDevices[k] EXCEPT !.val = disconnect(stopPublishing(@))]]
  /\ result' = Completed("stopAllDevices", JUndef)
  /\ UNCHANGED <<rules, devices, lastExecution, executionCallbacks, heap, stack,
                 log, passCount, now, clock, config, evalIn, evalOut,
                 deviceCommands, managedDevices, control>>

InitLifecycle == DevicesConstructed(<<>>)

NextLifecycle ==
  \/ \E deviceId \in ManagedIds : createDeviceConnects(deviceId)
  \/ \E deviceId \in ManagedIds, c \in 1..MaxClients : onConnect(deviceId, c)
  \/ \E deviceId \in ManagedIds, c \in 1..MaxClients : onClose(deviceId, c)
  \/ startAllDevices
  \/ stopAllDevices

SpecLifecycle == InitLifecycle /\ [][NextLifecycle]_vars

(***************************************************************************)
(* The default rules around the clock: a door sensor that reports open and *)
(* closed at every hour of the day, the default rule door-open-night-alert *)
(* disabled and enabled, and one callback                                  *)
(***************************************************************************)
DoorInput(state) ==
  [deviceId |-> "door-1", deviceType |-> "door-sensor", room |-> "hall",
   name |-> "door-1", topic |-> "home/hall/door-1/door",
   value |-> JObj([state |-> JStr(state)]), timestamp |-> 0, online |-> TRUE]

NightConfig ==
  [rules |-> {defaultRules[4]},
   deviceData |-> {DoorInput("open"), DoorInput("closed")},
   deviceIds |-> {},
   updates |-> {},
   callbacks |-> 1,
   reentrant |-> {},
   horizon |-> 0]

\* new Date().getHours() is any hour of the day
HourClocks == {[hour |-> h, minute |-> 0, day |-> 1] : h \in 0..23}

InitNight ==
  /\ Constructed
  /\ now = 0
  /\ clock \in HourClocks
  /\ config = NightConfig
  /\ evalIn = NoEvaluation
  /\ evalOut = NoEvaluation
  /\ deviceCommands = <<>>
  /\ managedDevices = <<>>
  /\ control = NewControl
  /\ baseDevices = <<>>
  /\ isRunning = FALSE

NextNight ==
  \/ \E ruleId \in RuleIdInputs : enableRule(ruleId)
  \/ \E ruleId \in RuleIdInputs : disableRule(ruleId)
  \/ onRuleExecution(CallbackNames[Len(executionCallbacks) + 1])
  \/ \E deviceData \in config.deviceData : updateDeviceData(deviceData)
  \/ PassReturns
  \/ RulesPassedOver
  \/ executeRule
  \/ InvokeCallback
  \/ CallbackReturns
  \/ RuleExecuted

SpecNight == InitNight /\ [][NextNight]_vars

(***************************************************************************)
(* Re-entry: a callback that reports device data again while the pass that *)
(* called it is in progress, with a rule that has a cooldown and a rule    *)
(* that has none, and a clock that stops short of the cooldown             *)
(***************************************************************************)
ReentryConfig ==
  [rules |-> {TestRule("cooled", 100, JNum(Cool), <<TemperatureAbove30>>),
              TestRule("eager", 50, JUndef, <<TemperatureAbove30>>)},
   deviceData |-> {DeviceInput("d1", Hot, TRUE)},
   deviceIds |-> {},
   updates |-> {},
   callbacks |-> 1,
   reentrant |-> {"updateDeviceData"},
   horizon |-> Cool - 1]

InitReentry ==
  /\ Constructed
  /\ now = 0
  /\ clock \in StartClocks
  /\ config = ReentryConfig
  /\ evalIn = NoEvaluation
  /\ evalOut = NoEvaluation
  /\ deviceCommands = <<>>
  /\ managedDevices = <<>>
  /\ control = NewControl
  /\ baseDevices = <<>>
  /\ isRunning = FALSE

NextReentry ==
  \/ \E rule \in config.rules : addRule(rule)
  \/ \E ruleId \in RuleIdInputs : removeRule(ruleId)
  \/ onRuleExecution(CallbackNames[Len(executionCallbacks) + 1])
  \/ \E deviceData \in config.deviceData : updateDeviceData(deviceData)
  \/ PassReturns
  \/ RulesPassedOver
  \/ executeRule
  \/ InvokeCallback
  \/ CallbackReturns
  \/ RuleExecuted
  \/ Tick

SpecReentry == InitReentry /\ [][NextReentry]_vars

\* the engine goes on with a pass in progress, and a callback returns
PassStep ==
  \/ PassReturns
  \/ RulesPassedOver
  \/ executeRule
  \/ InvokeCallback
  \/ CallbackReturns
  \/ RuleExecuted

FairReentry == SpecReentry /\ WF_vars(PassStep)

(***************************************************************************)
(* The telemetry a pass evaluates: the same comparison as a sensor_value   *)
(* condition and as a device_state condition, below a rule whose callback  *)
(* reports the trigger device again with another value                     *)
(***************************************************************************)
TemperatureStateAbove30 == Condition("device_state", JStr("temperature"), ">", JNum(30))

TelemetryConfig ==
  [rules |-> {TestRule("first", 100, JUndef, <<TemperatureAbove30>>),
              TestRule("by-state", 50, JUndef, <<TemperatureStateAbove30>>),
              TestRule("by-sensor", 40, JUndef, <<TemperatureAbove30>>)},
   deviceData |-> {DeviceInput("d1", Hot, TRUE), DeviceInput("d1", Mild, TRUE)},
   deviceIds |-> {},
   updates |-> {},
   callbacks |-> 1,
   reentrant |-> {"updateDeviceData"},
   horizon |-> 0]

InitTelemetry ==
  /\ Constructed
  /\ now = 0
  /\ clock \in StartClocks
  /\ config = TelemetryConfig
  /\ evalIn = NoEvaluation
  /\ evalOut = NoEvaluation
  /\ deviceCommands = <<>>
  /\ managedDevices = <<>>
  /\ control = NewControl
  /\ baseDevices = <<>>
  /\ isRunning = FALSE

NextTelemetry ==
  \/ \E rule \in config.rules : addRule(rule)
  \/ onRuleExecution(CallbackNames[Len(executionCallbacks) + 1])
  \/ \E deviceData \in config.deviceData : updateDeviceData(deviceData)
  \/ PassReturns
  \/ RulesPassedOver
  \/ executeRule
  \/ InvokeCallback
  \/ CallbackReturns
  \/ RuleExecuted

SpecTelemetry == InitTelemetry /\ [][NextTelemetry]_vars

(***************************************************************************)
(* Stand-alone evaluation of a list of conditions: the inputs are drawn    *)
(* initially, the one step applies evaluateConditions to them.             *)
(***************************************************************************)
MaxChain == 3          \* conditions in a drawn chain

\* a device table holding the given records, in this order
TableOf(records) ==
  [devices |-> [i \in 1..Len(records) |-> [key |-> records[i].deviceId, val |-> i]],
   heap |-> records]

EvalTables ==
  { TableOf(<<>>),
    TableOf(<<[DeviceInput("d1", Hot, TRUE) EXCEPT !.timestamp = 0]>>),
    TableOf(<<DeviceInput("d1", Hot, FALSE)>>) }

EvalTriggers == {DeviceInput("d1", Hot, TRUE)}

EvalClocks == StartClocks

KnownTypes == {"device_state", "sensor_value", "time", "device_offline", "composite"}

KnownOperators == {"=", "!=", ">", "<", ">=", "<=", "contains", "between", "in"}

TimeProperties == {JStr("hour"), JStr("time"), JStr("dayOfWeek")}

WellFormedConditions ==
  { TemperatureAbove30,
    Condition("sensor_value", JStr("temperature"), "<", JNum(30)),
    [Condition("sensor_value", JStr("temperature"), "between", JNum(30))
       EXCEPT !.secondValue = JNum(40)],
    [Condition("device_offline", JUndef, "=", JBool(TRUE)) EXCEPT !.deviceId = JStr("d1")],
    Condition("time", JStr("hour"), ">=", JNum(12)),
    Condition("composite", JUndef, "=", JBool(TRUE)) }

MalformedConditions ==
  { Condition("bogus", JStr("temperature"), ">", JNum(30)),
    Condition("sensor_value", JStr("temperature"), "~", JNum(30)),
    Condition("device_state", JStr("temperature"), "~", JNum(30)),
    Condition("sensor_value", JStr("temperature"), "between", JNum(30)),
    Condition("device_offline", JUndef, "=", JBool(TRUE)),
    [Condition("device_offline", JUndef, "~", JBool(TRUE)) EXCEPT !.deviceId = JStr("d1")],
    Condition("time", JUndef, ">=", JNum(12)),
    Condition("time", JStr("month"), ">=", JNum(0)),
    Condition("time", JStr("hour"), "~", JNum(12)),
    Condition("time", JStr("time"), ">", JNum(5)),
    Condition("time", JStr("time"), ">", JStr("09:30")) }

\* conditions on a property the telemetry of the drawn trigger does not have
Unresolved(operator, value) == Condition("sensor_value", JStr("humidity"), operator, value)

UnresolvedConditions ==
  { Unresolved("=", JNum(30)), Unresolved("=", JUndef), Unresolved("!=", JNum(30)),
    Unresolved(">", JNum(30)), Unresolved("<", JNum(30)),
    Unresolved(">=", JNum(30)), Unresolved("<=", JNum(30)),
    Unresolved("contains", JStr("hot")), Unresolved("contains", JStr("fine")),
    [Unresolved("between", JNum(30)) EXCEPT !.secondValue = JNum(40)],
    Unresolved("in", JArr(<<JNum(35)>>)), Unresolved("in", JArr(<<JUndef>>)) }

\* conditions on the time of day, with "HH:MM" operands
AtTime(operator, value) == Condition("time", JStr("time"), operator, JStr(value))

TimeOfDayConditions ==
  { AtTime("=", "12:00"), AtTime("!=", "12:00"), AtTime(">", "09:30"),
    AtTime("<", "13:05"), AtTime(">=", "12:00"), AtTime("<=", "11:59"),
    [AtTime("between", "09:00") EXCEPT !.secondValue = JStr("17:00")],
    [AtTime("between", "13:00") EXCEPT !.secondValue = JStr("17:00")] }

LogicalOperators == {JUndef, JStr("AND"), JStr("OR")}

\* the links of the drawn chains: a condition that holds for the drawn
\* trigger or one that does not, with each logicalOperator
ChainLinks ==
  {[c EXCEPT !.logicalOperator = l] :
     c \in {TemperatureAbove30,
            Condition("sensor_value", JStr("temperature"), "<", JNum(30))},
     l \in LogicalOperators}

ChainsOfLength(n) == [1..n -> ChainLinks]

EvalChains ==
  {<<c>> : c \in WellFormedConditions \cup MalformedConditions
                   \cup UnresolvedConditions \cup TimeOfDayConditions}
    \cup UNION {ChainsOfLength(n) : n \in 0..MaxChain}

InitEval ==
  /\ rules = loadDefaultRules
  /\ lastExecution = <<>>
  /\ executionCallbacks = <<>>
  /\ stack = <<>>
  /\ log = <<>>
  /\ passCount = 0
  /\ result = NoResult
  /\ now = 0
  /\ config = MalformedConfig
  /\ clock \in EvalClocks
  /\ \E table \in EvalTables : devices = table.devices /\ heap = table.heap
  /\ evalIn \in {[done |-> FALSE, conditions |-> c, triggerDevice |-> d] :
                   c \in EvalChains, d \in EvalTriggers}
  /\ evalOut = NoEvaluation
  /\ deviceCommands = <<>>
  /\ managedDevices = <<>>
  /\ control = NewControl
  /\ baseDevices = <<>>
  /\ isRunning = FALSE

Evaluate ==
  /\ ~evalOut.done
  /\ LET outcome == evaluateConditions(evalIn.conditions, evalIn.triggerDevice)
     IN evalOut' = [done |-> TRUE, threw |-> outcome.threw, val |-> outcome.val]
  /\ UNCHANGED <<rules, devices, lastExecution, executionCallbacks, heap, stack,
                 log, passCount, result, now, clock, config, evalIn,
                 deviceCommands, managedDevices, control,
                 baseDevices, isRunning>>

NextEval == Evaluate

SpecEval == InitEval /\ [][NextEval]_vars

(***************************************************************************)
(* Stand-alone comparison: compareValues applied to drawn operands         *)
(***************************************************************************)
MaxActual == 11        \* the actual values run from 0 to MaxActual

CompareActuals == {JNum(n) : n \in 0..MaxActual}

\* the bounds of the spec's examples of 'between', either way round
CompareExpecteds == {JNum(1), JNum(10)}

InitCompare ==
  /\ Constructed
  /\ now = 0
  /\ clock \in StartClocks
  /\ config = StoreConfig
  /\ evalIn \in {[done |-> FALSE, actual |-> a, operator |-> o,
                  expected |-> e, secondExpected |-> f] :
                   a \in CompareActuals, o \in KnownOperators,
                   e \in CompareExpecteds, f \in CompareExpecteds}
  /\ evalOut = NoEvaluation
  /\ deviceCommands = <<>>
  /\ managedDevices = <<>>
  /\ control = NewControl
  /\ baseDevices = <<>>
  /\ isRunning = FALSE

Compare ==
  /\ ~evalOut.done
  /\ evalOut' = [done |-> TRUE,
                 val |-> compareValues(evalIn.actual, evalIn.operator,
                                       evalIn.expected, evalIn.secondExpected)]
  /\ UNCHANGED <<rules, devices, lastExecution, executionCallbacks, heap, stack,
                 log, passCount, result, now, clock, config, evalIn,
                 deviceCommands, managedDevices, control,
                 baseDevices, isRunning>>

NextCompare == Compare

SpecCompare == InitCompare /\ [][NextCompare]_vars

(***************************************************************************)
(* C5                                                                      *)
(***************************************************************************)
\* whether one condition of the drawn chain holds, taken alone
HoldsAlone(k) == evaluateCondition(evalIn.conditions[k], evalIn.triggerDevice).val

\* the fold from the left over the first n conditions, the operator written
\* on condition k - 1 joining the result so far with condition k
RECURSIVE LeftFold(_)
LeftFold(n) ==
  IF n = 1 THEN HoldsAlone(1)
  ELSE IF evalIn.conditions[n - 1].logicalOperator = JStr("OR")
    THEN LeftFold(n - 1) \/ HoldsAlone(n)
  ELSE LeftFold(n - 1) /\ HoldsAlone(n)

IsChain == evalIn.conditions \in UNION {ChainsOfLength(n) : n \in 1..(MaxChain + 1)}

\* C5: a chain of conditions evaluates to the left fold in which the
\* logicalOperator of condition i-1 (AND when absent) joins the running
\* result with condition i; in particular [A(OR), B(AND), C] evaluates to
\* (A OR B) AND C for every truth assignment to A, B, C.
C5_LeftFold ==
  (evalOut.done /\ IsChain) =>
    /\ ~evalOut.threw
    /\ evalOut.val = LeftFold(Len(evalIn.conditions))
    /\ ( /\ Len(evalIn.conditions) = 3
         /\ evalIn.conditions[1].logicalOperator = JStr("OR")
         /\ evalIn.conditions[2].logicalOperator = JStr("AND") )
       => evalOut.val = ((HoldsAlone(1) \/ HoldsAlone(2)) /\ HoldsAlone(3))

\* the chain [A(OR), B(AND), C] with A true, B and C false was evaluated:
\* (A OR B) AND C is false where A OR (B AND C) is true
C5_Witness ==
  /\ evalOut.done /\ IsChain
  /\ Len(evalIn.conditions) = 3
  /\ evalIn.conditions[1].logicalOperator = JStr("OR")
  /\ evalIn.conditions[2].logicalOperator = JStr("AND")
  /\ HoldsAlone(1) /\ ~HoldsAlone(2) /\ ~HoldsAlone(3)
  /\ ~evalOut.val

(***************************************************************************)
(* C10                                                                     *)
(***************************************************************************)
\* the malformed conditions of the claim: unknown type, unknown operator,
\* 'between' without secondValue, device_offline without deviceId, time
\* without a supported property
IsMalformed(c) ==
  \/ c.type \notin KnownTypes
  \/ c.operator \notin KnownOperators
  \/ c.operator = "between" /\ c.secondValue = JUndef
  \/ c.type = "device_offline" /\ c.deviceId = JUndef
  \/ c.type = "time" /\ c.property \notin TimeProperties

\* C10: a malformed condition evaluates as non-matching (to false).
C10_MalformedIsFalse ==
  (evalOut.done /\ Len(evalIn.conditions) = 1 /\ IsMalformed(evalIn.conditions[1]))
    => (~evalOut.threw /\ ~evalOut.val)

(***************************************************************************)
(* What a step of a pass does, read off the two states of the step         *)
(***************************************************************************)
Firing(frame) == frame.phase \in {"callbacks", "incallback"}

\* the step is executeRule for the rule at the current place of the
\* innermost pass
Fires ==
  /\ InLoop
  /\ Len(stack') = Len(stack)
  /\ stack'[Len(stack)].phase = "callbacks"

\* the step runs the iteration of place j of the innermost pass
Decides(j) ==
  /\ InLoop /\ Top.i <= Len(Top.enabledRules)
  /\ stack' # stack
  /\ \/ j = Top.i
     \/ /\ Len(stack') = Len(stack)
        /\ stack'[Len(stack)].phase = "rules"
        /\ j > Top.i /\ j < stack'[Len(stack)].i

\* the step starts a pass
PassStarts == Len(stack') = Len(stack) + 1

\* the conditions of the rule at place j hold for the trigger of the pass
Qualifies(j) ==
  evaluateConditions(Top.enabledRules[j].conditions, heap[Top.trigger]) = Returns(TRUE)

HasCooldown(ruleId) == MapHas(rules, ruleId) /\ Truthy(MapGet(rules, ruleId).cooldownMs)

\* milliseconds since the last firing of a rule that fired before
SinceLast(ruleId) == now - MapGet(lastExecution, ruleId)

\* by the arithmetic of the claim, nothing holds the stored rule back: it
\* has no cooldownMs, or never fired, or fired more than cooldownMs ago
FreeToFire(ruleId) ==
  /\ MapHas(rules, ruleId)
  /\ \/ ~HasCooldown(ruleId)
     \/ ~MapHas(lastExecution, ruleId)
     \/ SinceLast(ruleId) > MapGet(rules, ruleId).cooldownMs.n

\* every place the step decides whose rule qualifies and is free to fire is
\* the place the step fires
QualifyingRulesFire ==
  \A j \in 1..Len(Top.enabledRules) :
    (Decides(j) /\ Qualifies(j) /\ FreeToFire(Top.enabledRules[j].id))
      => (j = Top.i /\ Fires)

(***************************************************************************)
(* C1                                                                      *)
(***************************************************************************)
C1_Step ==
  (InLoop /\ Top.i <= Len(Top.enabledRules)) =>
    /\ ( /\ Fires
         /\ HasCooldown(CurrentRule.id)
         /\ MapHas(lastExecution, CurrentRule.id) )
       => ~(SinceLast(CurrentRule.id) < MapGet(rules, CurrentRule.id).cooldownMs.n)
    /\ QualifyingRulesFire

\* C1: a rule with cooldownMs = C that fired at t0 does not fire on a
\* qualifying trigger at a time t with t - t0 < C, and fires on one with
\* t - t0 > C; a rule without cooldownMs, or that never fired, is not held
\* back.
C1_Cooldown == [][C1_Step]_vars

\* the throttled rule fires in a nested pass more than Cool after the firing
\* of the outer pass, which is still in its callback
C1_Witness ==
  /\ Len(stack) = 2
  /\ Firing(stack[1]) /\ stack[1].context.rule.id = "throttled"
  /\ Firing(stack[2]) /\ stack[2].context.rule.id = "throttled"
  /\ stack[2].context.timestamp - stack[1].context.timestamp > Cool

(***************************************************************************)
(* C2                                                                      *)
(***************************************************************************)
\* while the callbacks of a firing run, the timestamp of the rule is set
C2_Marked ==
  \A k \in 1..Len(stack) :
    Firing(stack[k]) =>
      /\ MapHas(lastExecution, stack[k].context.rule.id)
      /\ MapGet(lastExecution, stack[k].context.rule.id) >= stack[k].context.timestamp

\* no pass fires a rule with a cooldown that an enclosing pass is firing,
\* inside the cooldown window of that firing
C2_Step ==
  (InLoop /\ Top.i <= Len(Top.enabledRules) /\ Fires) =>
    \A k \in 1..(Len(stack) - 1) :
      ~ /\ Firing(stack[k])
        /\ stack[k].context.rule.id = CurrentRule.id
        /\ HasCooldown(CurrentRule.id)
        /\ now - stack[k].context.timestamp < MapGet(rules, CurrentRule.id).cooldownMs.n

\* C2: the last-execution timestamp is set when the rule is selected, before
\* any callback runs, so a callback that calls updateDeviceData with another
\* qualifying event cannot make the rule fire again inside its cooldown.
C2_MarkedBeforeCallbacks == []C2_Marked /\ [][C2_Step]_vars

\* a nested pass, started by the callback of the firing of the throttled
\* rule with a qualifying event inside the cooldown, has passed the rule over
C2_Witness ==
  /\ Len(stack) = 2
  /\ stack[1].phase = "incallback" /\ stack[1].context.rule.id = "throttled"
  /\ now - stack[1].context.timestamp < Cool
  /\ stack[2].phase = "rules" /\ stack[2].i > Len(stack[2].enabledRules)
  /\ stack[2].op = "updateDeviceData"
  /\ heap[stack[2].trigger].value = Hot
  /\ \E j \in 1..Len(stack[2].enabledRules) : stack[2].enabledRules[j].id = "throttled"
  /\ \A k \in 1..Len(log) : log[k].pass # stack[2].id

(***************************************************************************)
(* C3                                                                      *)
(***************************************************************************)
\* C3: a rule whose list of conditions is empty never fires: no pass
\* executes it and no callback is invoked with it.
C3_EmptyNeverFires ==
  /\ \A k \in 1..Len(stack) :
       Firing(stack[k]) => stack[k].context.rule.conditions # <<>>
  /\ \A k \in 1..Len(log) : log[k].context.rule.conditions # <<>>

\* a pass with an enabled rule without conditions has come to its end, with
\* a callback registered
C3_Witness ==
  /\ InLoop /\ Top.i > Len(Top.enabledRules)
  /\ \E j \in 1..Len(Top.enabledRules) : Top.enabledRules[j].conditions = <<>>
  /\ Len(executionCallbacks) >= 1
  /\ \A k \in 1..Len(log) : log[k].context.rule.id # "empty"

(***************************************************************************)
(* C4                                                                      *)
(***************************************************************************)
\* within a pass the contexts are delivered by descending priority, and
\* rules of equal priority by their place among the rules of the pass
C4_LogOrder ==
  \A k, l \in 1..Len(log) :
    (k < l /\ log[k].pass = log[l].pass) =>
      /\ log[k].context.rule.priority >= log[l].context.rule.priority
      /\ log[k].i <= log[l].i

\* the rules of a pass are in descending priority, rules of equal priority
\* in the order of insertion into the store
C4_Step ==
  PassStarts =>
    LET snap == stack'[Len(stack')].enabledRules
    IN \A a, b \in 1..Len(snap) :
         a < b =>
           /\ snap[a].priority >= snap[b].priority
           /\ snap[a].priority = snap[b].priority
                => MapIndex(rules, snap[a].id) < MapIndex(rules, snap[b].id)

\* C4: the contexts of the matching rules of one pass reach the callbacks in
\* descending priority order, ties in insertion order.
C4_PriorityOrder == []C4_LogOrder /\ [][C4_Step]_vars

\* two rules of different priority fired in one pass, the one inserted
\* first having the lower priority
C4_Witness ==
  \E k, l \in 1..Len(log) :
    /\ k < l /\ log[k].pass = log[l].pass
    /\ log[k].context.rule.priority > log[l].context.rule.priority
    /\ MapHas(rules, log[k].context.rule.id) /\ MapHas(rules, log[l].context.rule.id)
    /\ MapIndex(rules, log[l].context.rule.id) < MapIndex(rules, log[k].context.rule.id)

(***************************************************************************)
(* C6                                                                      *)
(***************************************************************************)
StoredDevice(deviceId) == heap[MapGet(devices, deviceId)]

\* C6: with the rule callback-test (sensor_value, 'value.temperature' > 30)
\* added and one callback registered, updateDeviceData for a device whose
\* value is {temperature: 35}, online, invokes the callback exactly once,
\* with that rule.
C6_CallbackTestFires ==
  ( /\ stack = <<>>
    /\ result = Completed("updateDeviceData", JUndef)
    /\ passCount = 1
    /\ Len(executionCallbacks) = 1
    /\ MapHas(rules, "callback-test") /\ MapGet(rules, "callback-test").enabled
    /\ ~MapHas(rules, "empty") /\ ~MapHas(rules, "bad-time")
    /\ MapHas(devices, "temp-test")
    /\ StoredDevice("temp-test").value = Hot /\ StoredDevice("temp-test").online )
  => ( /\ Len(log) = 1
       /\ log[1].context.rule.id = "callback-test" )

(***************************************************************************)
(* C7                                                                      *)
(***************************************************************************)
\* every rule handed to a callback was taken enabled into its pass
C7_DeliveredEnabled == \A k \in 1..Len(log) : log[k].context.rule.enabled

\* a pass takes the rules that are enabled in the store when it starts, all
\* of them and no other, fires rules of its own only, and fires each of them
\* that qualifies and is free to fire
C7_Step ==
  /\ PassStarts =>
       LET snap == stack'[Len(stack')].enabledRules
       IN /\ \A j \in 1..Len(snap) :
               /\ MapHas(rules, snap[j].id)
               /\ MapGet(rules, snap[j].id) = snap[j]
               /\ snap[j].enabled
          /\ \A n \in 1..Len(rules) :
               rules[n].val.enabled => \E j \in 1..Len(snap) : snap[j] = rules[n].val
  /\ (InLoop /\ Top.i <= Len(Top.enabledRules)) =>
       /\ Fires => stack'[Len(stack)].context.rule = CurrentRule
       /\ QualifyingRulesFire

\* C7: after disableRule(id) no trigger invokes a callback for the rule while
\* it stays disabled; after enableRule(id) a qualifying trigger fires it
\* again.
C7_DisabledDoesNotFire == []C7_DeliveredEnabled /\ [][C7_Step]_vars

\* a pass started by a qualifying event has come to its end without the
\* disabled rule `first`, whose callbacks would have been logged
C7_Witness ==
  /\ InLoop /\ Top.i > Len(Top.enabledRules)
  /\ heap[Top.trigger].value = Hot
  /\ MapHas(rules, "first") /\ ~MapGet(rules, "first").enabled
  /\ \A j \in 1..Len(Top.enabledRules) : Top.enabledRules[j].id # "first"
  /\ Len(executionCallbacks) >= 1
  /\ \E k \in 1..Len(log) : log[k].pass = Top.id /\ log[k].context.rule.id = "second"

(***************************************************************************)
(* C8                                                                      *)
(***************************************************************************)
\* the step is the catch of executeRule: a callback that ran has thrown
CallbackThrew ==
  /\ Len(log') = Len(log)
  /\ \E k \in 1..Len(log) : log[k].outcome = "running" /\ log'[k].outcome = "threw"

\* after the catch the same firing goes on with the next callback, in the
\* same pass over the same rules
C8_Step ==
  CallbackThrew =>
    /\ Len(stack') = Len(stack)
    /\ stack'[Len(stack)] = [Top EXCEPT !.phase = "callbacks", !.cb = Top.cb + 1]

\* a firing is over when no pass is at its callbacks any more
FiringOver(entry) ==
  \A k \in 1..Len(stack) :
    ~(stack[k].id = entry.pass /\ stack[k].i = entry.i /\ Firing(stack[k]))

\* once a firing is over, every registered callback has been invoked for
\* it, whichever of them threw
C8_AllInvoked ==
  \A k \in 1..Len(log) :
    FiringOver(log[k]) =>
      \A c \in 1..Len(executionCallbacks) :
        \E l \in 1..Len(log) :
          log[l].pass = log[k].pass /\ log[l].i = log[k].i /\ log[l].cb = c

\* C8: a callback that throws does not stop the pass: the other callbacks
\* are still invoked for the firing, and the remaining rules of the pass are
\* still evaluated and fired if they match.
C8_ThrowIsolated ==
  /\ []C8_AllInvoked
  /\ [][C8_Step]_vars
  /\ [][(InLoop /\ Top.i <= Len(Top.enabledRules)) => QualifyingRulesFire]_vars

\* the first callback threw, the second was invoked for the same firing,
\* and a later rule of the pass fired
C8_Witness ==
  \E k, l, m \in 1..Len(log) :
    /\ log[k].outcome = "threw" /\ log[k].cb = 1
    /\ log[l].pass = log[k].pass /\ log[l].i = log[k].i /\ log[l].cb = 2
    /\ log[m].pass = log[k].pass /\ log[m].i > log[k].i

(***************************************************************************)
(* C9                                                                      *)
(***************************************************************************)
\* C9: updateDeviceData and markDeviceOffline never throw to their caller,
\* whatever rules are stored.
C9_NeverThrows == ~result.threw

(***************************************************************************)
(* C11                                                                     *)
(***************************************************************************)
\* how often a rule occurs in a list of rules
Occurrences(rs, rule) == Cardinality({k \in 1..Len(rs) : rs[k] = rule})

\* getAllRules() lists the stored rules, each as often as it is stored, by
\* descending priority, rules of equal priority in the order of the store
C11_Listing ==
  LET out == getAllRules
      stored == MapValues(rules)
  IN /\ Len(out) = Len(stored)
     /\ \A i \in 1..Len(stored) : Occurrences(out, stored[i]) = Occurrences(stored, stored[i])
     /\ \A k \in 1..(Len(out) - 1) :
          /\ out[k].priority >= out[k + 1].priority
          /\ out[k].priority = out[k + 1].priority =>
               \E i \in 1..Len(stored) :
                 /\ stored[i] = out[k]
                 /\ \E j \in (i + 1)..Len(stored) : stored[j] = out[k + 1]

\* the order of the store: the keys that stay keep their order, a key that
\* comes in comes last
C11_Step ==
  rules' # rules =>
    /\ \A i, j \in 1..Len(rules) :
         (i < j /\ MapHas(rules', rules[i].key) /\ MapHas(rules', rules[j].key))
           => MapIndex(rules', rules[i].key) < MapIndex(rules', rules[j].key)
    /\ \A i, j \in 1..Len(rules') :
         (i < j /\ ~MapHas(rules, rules'[i].key)) => ~MapHas(rules, rules'[j].key)

\* C11 (amended): getAllRules() returns exactly the stored rules by
\* descending priority, rules of equal priority in the order in which their
\* ids came into the store since they last were absent from it: an id that is
\* removed and added again counts as inserted when it is added again.
C11_StoreOrder == []C11_Listing /\ [][C11_Step]_vars

DefaultIds == {defaultRules[i].id : i \in 1..Len(defaultRules)}

\* every stored rule has the id it is stored under
IdsAreKeys == \A i \in 1..Len(rules) : rules[i].val.id = rules[i].key

\* C11 (as stated): getAllRules() returns the stored rules by descending
\* priority, rules of equal priority in the order in which their ids were
\* first inserted. The ids of the default rules are first inserted by the
\* constructor, before every other id, so a default rule is listed before
\* every other rule of its priority.
C11_FirstInsertedOrder ==
  /\ C11_Listing
  /\ IdsAreKeys =>
       LET out == getAllRules
       IN \A k, l \in 1..Len(out) :
            ( /\ out[k].id \in DefaultIds
              /\ out[l].id \notin DefaultIds
              /\ out[k].priority = out[l].priority )
            => k < l

\* the default rule motion-lights-on, removed and added again after the rule
\* update-test of the same priority, is listed after it
C11_Witness ==
  /\ IdsAreKeys
  /\ MapHas(rules, "update-test") /\ MapHas(rules, "motion-lights-on")
  /\ MapGet(rules, "update-test").priority = MapGet(rules, "motion-lights-on").priority
  /\ MapIndex(rules, "update-test") < MapIndex(rules, "motion-lights-on")
  /\ \E k, l \in 1..Len(getAllRules) :
       /\ k < l
       /\ getAllRules[k].id = "update-test"
       /\ getAllRules[l].id = "motion-lights-on"

(***************************************************************************)
(* C12                                                                     *)
(***************************************************************************)
\* the rules stored under the other keys, and the places of all keys, are
\* those of before
OtherRulesKept(ruleId) ==
  /\ Len(rules') = Len(rules)
  /\ \A i \in 1..Len(rules) :
       /\ rules'[i].key = rules[i].key
       /\ rules[i].key # ruleId => rules'[i].val = rules[i].val

\* the rule has the fields of updates from updates and its other fields
\* from before
FieldsMerged(ruleId, updates) ==
  LET old == MapGet(rules, ruleId)
      new == MapGet(rules', ruleId)
  IN /\ DOMAIN new = (DOMAIN old) \cup (DOMAIN updates)
     /\ \A f \in DOMAIN updates : new[f] = updates[f]
     /\ \A f \in (DOMAIN old) \ (DOMAIN updates) : new[f] = old[f]

C12_Step ==
  \A ruleId \in RuleIdInputs, updates \in config.updates :
    (MapHas(rules, ruleId) /\ updateRule(ruleId, updates)) =>
      /\ result' = Completed("updateRule", JBool(TRUE))
      /\ OtherRulesKept(ruleId)
      /\ FieldsMerged(ruleId, updates)

\* C12: updateRule(id, updates) on a stored rule changes exactly the fields
\* supplied in updates, leaves the other fields of the rule and every other
\* rule unchanged, and returns true.
C12_UpdateMerges == [][C12_Step]_vars

\* the update of the test 'should update rules' has been applied: name and
\* priority are new, the description is the one the rule was added with
C12_Witness ==
  /\ result = Completed("updateRule", JBool(TRUE))
  /\ MapHas(rules, "update-test")
  /\ MapGet(rules, "update-test").name = "Updated Name"
  /\ MapGet(rules, "update-test").priority = 75
  /\ MapGet(rules, "update-test").description = ""
  /\ MapGet(rules, "update-test").id = "update-test"

(***************************************************************************)
(* C13                                                                     *)
(***************************************************************************)
\* the device table as its readers see it: the records by device id
TableView(table, objects) ==
  [i \in 1..Len(table) |-> [key |-> table[i].key, val |-> objects[table[i].val]]]

\* the call returned false and left the three maps as they were
RefusedAs(method) ==
  /\ result' = Completed(method, JBool(FALSE))
  /\ rules' = rules
  /\ lastExecution' = lastExecution
  /\ TableView(devices', heap') = TableView(devices, heap)

C13_Step ==
  \A ruleId \in RuleIdInputs :
    ~MapHas(rules, ruleId) =>
      /\ removeRule(ruleId) => RefusedAs("removeRule")
      /\ enableRule(ruleId) => RefusedAs("enableRule")
      /\ disableRule(ruleId) => RefusedAs("disableRule")
      /\ \A updates \in config.updates :
           updateRule(ruleId, updates) => RefusedAs("updateRule")

\* C13: updateRule, enableRule, disableRule and removeRule with an id that is
\* not in the store return false, do not throw, and leave the rule store,
\* the device table and the cooldown timestamps unchanged.
C13_UnknownIdRefused == [][C13_Step]_vars

\* updateRule has returned false, with a device in the table
C13_Witness ==
  /\ result = Completed("updateRule", JBool(FALSE))
  /\ devices # <<>>

(***************************************************************************)
(* C14                                                                     *)
(***************************************************************************)
\* C14: every stored rule's id is the key under which getRule finds it, and
\* no two stored rules have the same id; updateRule cannot change the id of
\* a rule.
C14_IdsImmutableAndUnique ==
  /\ \A i \in 1..Len(rules) : MapGet(rules, rules[i].key).id = rules[i].key
  /\ \A i, j \in 1..Len(rules) : rules[i].val.id = rules[j].val.id => i = j

(***************************************************************************)
(* C15                                                                     *)
(***************************************************************************)
\* the pass the step starts
StartedPass == stack'[Len(stack')]

\* markDeviceOffline for a device of the table starts a pass whose trigger is
\* the record of the device, now offline, over the enabled rules; and a pass
\* fires every rule of its own that qualifies and is free to fire
C15_Step ==
  /\ \A deviceId \in config.deviceIds :
       (MapHas(devices, deviceId) /\ markDeviceOffline(deviceId)) =>
         /\ PassStarts
         /\ StartedPass.op = "markDeviceOffline"
         /\ StartedPass.trigger = MapGet(devices', deviceId)
         /\ heap'[StartedPass.trigger].deviceId = deviceId
         /\ ~heap'[StartedPass.trigger].online
         /\ heap'[StartedPass.trigger].timestamp = now
         /\ StartedPass.enabledRules = EnabledRules
  /\ (InLoop /\ Top.op = "markDeviceOffline" /\ Top.i <= Len(Top.enabledRules))
       => QualifyingRulesFire

\* markDeviceOffline has returned to the owner of the engine
MarkedOffline(deviceId) ==
  /\ stack = <<>>
  /\ result = Completed("markDeviceOffline", JUndef)
  /\ MapHas(devices, deviceId)

\* when the call returns, the device is offline and the rule on its being
\* offline has been handed to the callbacks, in the pass of the call, with
\* the device as trigger
C15_Fired ==
  ( /\ MarkedOffline("d1")
    /\ MapHas(rules, "offline-alert") /\ MapGet(rules, "offline-alert").enabled
    /\ Len(executionCallbacks) >= 1 )
  => /\ ~StoredDevice("d1").online
     /\ \E k \in 1..Len(log) :
          /\ log[k].pass = 1
          /\ log[k].context.rule.id = "offline-alert"
          /\ log[k].context.triggerDevice = MapGet(devices, "d1")

\* C15: markDeviceOffline(d) for a device of the table sets its online flag
\* to false and runs an evaluation pass with d as trigger within the call, so
\* an enabled rule without cooldown whose only condition is device_offline
\* on d fires during that call.
C15_OfflineTriggers == []C15_Fired /\ [][C15_Step]_vars

\* the call has returned after the rule offline-alert fired for d1, which was
\* online in the table before
C15_Witness ==
  /\ MarkedOffline("d1")
  /\ passCount = 1
  /\ \E k \in 1..Len(log) :
       /\ log[k].context.rule.id = "offline-alert"
       /\ log[k].outcome = "returned"
  /\ \A k \in 1..Len(log) : log[k].context.rule.id # "hot"

(***************************************************************************)
(* C16                                                                     *)
(***************************************************************************)
C16_Step ==
  \A deviceId \in config.deviceIds :
    (~MapHas(devices, deviceId) /\ markDeviceOffline(deviceId)) =>
      /\ result' = Completed("markDeviceOffline", JUndef)
      /\ TableView(devices', heap') = TableView(devices, heap)
      /\ stack' = stack /\ passCount' = passCount
      /\ \A k \in 1..Len(log') : k <= Len(log) /\ log'[k] = log[k]
      /\ lastExecution' = lastExecution
      /\ rules' = rules

\* C16: markDeviceOffline(d) for a device id that is not in the table adds
\* no device, changes no device record, runs no rule evaluation, invokes no
\* callback, changes no cooldown timestamp and does not throw.
C16_UnknownDeviceNoOp == [][C16_Step]_vars

\* markDeviceOffline('unknown') has returned: the one device of the table is
\* still online
C16_Witness ==
  /\ stack = <<>>
  /\ result = Completed("markDeviceOffline", JUndef)
  /\ ~MapHas(devices, "unknown")
  /\ MapHas(devices, "temp-test") /\ StoredDevice("temp-test").online
  /\ Len(executionCallbacks) = 1

(***************************************************************************)
(* C17                                                                     *)
(***************************************************************************)
\* C17: updateDeviceData(d) stores d with its timestamp set to the update
\* time in place of the previous record, and the trigger device handed to
\* the callbacks as context.triggerDevice is that stored record, equal to
\* context.allDevices.get(d.deviceId) including its timestamp. Stated for the
\* first firing of a call within which no other call has been made.
C17_TriggerIsStoredRecord ==
  ( /\ Len(stack) = 1 /\ passCount = 1
    /\ Top.op = "updateDeviceData"
    /\ Top.phase = "callbacks" /\ Top.cb = 1 )
  => LET context == Top.context
         triggerDevice == heap[context.triggerDevice]
     IN /\ MapHas(context.allDevices, triggerDevice.deviceId)
        /\ heap[MapGet(context.allDevices, triggerDevice.deviceId)] = triggerDevice

(***************************************************************************)
(* C18                                                                     *)
(***************************************************************************)
\* the records seen through the allDevices of a context
SnapshotView(context, objects) == TableView(context.allDevices, objects)

\* while a call is in progress, no step changes what is seen through the
\* allDevices of a context that has been handed to a callback
C18_Step ==
  stack # <<>> =>
    \A k \in 1..Len(log) :
      SnapshotView(log[k].context, heap') = SnapshotView(log[k].context, heap)

\* C18: the allDevices snapshot of a context does not change once it has
\* been handed to a callback: no later updateDeviceData or markDeviceOffline,
\* re-entrant ones included, alters its set of devices or any field of a
\* device record seen through it.
C18_SnapshotImmutable == [][C18_Step]_vars

(***************************************************************************)
(* C19                                                                     *)
(***************************************************************************)
\* two invocations belong to one firing
SameFiring(a, b) == a.pass = b.pass /\ a.i = b.i

\* the invocations of a firing go through the callbacks in the order of
\* their registration, each callback once, all with the context of the firing
\* and the actions of its rule; once the firing is over none is missing
C19_Invocations ==
  \A k \in 1..Len(log) :
    /\ log[k].cb \in 1..Len(executionCallbacks)
    /\ log[k].callback = executionCallbacks[log[k].cb]
    /\ log[k].actions = log[k].context.rule.actions
    /\ \A l \in 1..Len(log) :
         SameFiring(log[k], log[l]) =>
           /\ log[l].context = log[k].context
           /\ k < l <=> log[k].cb < log[l].cb
    /\ FiringOver(log[k]) =>
         \A c \in 1..Len(executionCallbacks) :
           \E l \in 1..Len(log) : SameFiring(log[k], log[l]) /\ log[l].cb = c

\* the context of a firing holds the rule as the store held it when the
\* pass started, and the firing invokes the callbacks one after the other
C19_Step ==
  /\ PassStarts =>
       \A j \in 1..Len(StartedPass.enabledRules) :
         StartedPass.enabledRules[j] \in {rules[n].val : n \in 1..Len(rules)}
  /\ (InLoop /\ Top.i <= Len(Top.enabledRules) /\ Fires) =>
       stack'[Len(stack)].context.rule = CurrentRule
  /\ Len(log') > Len(log) =>
       /\ InCallbacks
       /\ log' = Append(log, log'[Len(log')])
       /\ log'[Len(log')].context = Top.context
       /\ log'[Len(log')].cb = Top.cb

\* C19: for every firing, every registered callback is invoked exactly once,
\* in registration order, and all of them receive the same context and the
\* rule's action list in its stored order.
C19_EveryCallbackOnce == []C19_Invocations /\ [][C19_Step]_vars

\* a firing is over in which two callbacks were invoked, the one registered
\* first before the other
C19_Witness ==
  \E k, l \in 1..Len(log) :
    /\ k < l /\ SameFiring(log[k], log[l]) /\ FiringOver(log[k])
    /\ log[k].callback = "cb1" /\ log[l].callback = "cb2"
    /\ log[k].outcome = "returned" /\ log[l].outcome = "returned"
    /\ Len(log[k].actions) >= 1

(***************************************************************************)
(* C20                                                                     *)
(***************************************************************************)
\* the condition is on a property of the trigger that is not there
ExtractsUndefined(c, triggerDevice) ==
  /\ c.type = "sensor_value" /\ c.deviceId = JUndef
  /\ getPropertyValue(triggerDevice, c.property) = Returns(JUndef)

\* C20: when the property path of a condition does not resolve in the
\* telemetry value, the comparison matches for no operator other than '!=':
\* '=', '>', '<', '>=', '<=', 'contains', 'between' and 'in' evaluate to false
\* for every expected value.
C20_UndefinedNeverMatches ==
  ( /\ evalOut.done /\ Len(evalIn.conditions) = 1
    /\ ExtractsUndefined(evalIn.conditions[1], evalIn.triggerDevice)
    /\ evalIn.conditions[1].operator \in KnownOperators \ {"!="} )
  => (~evalOut.threw /\ ~evalOut.val)

(***************************************************************************)
(* C21                                                                     *)
(***************************************************************************)
\* 'between' was applied to three numbers
ComparedBetween ==
  /\ evalOut.done /\ evalIn.operator = "between"
  /\ evalIn.actual.t = "number" /\ evalIn.expected.t = "number"
  /\ evalIn.secondExpected.t = "number"

\* C21: 'between' is an inclusive numeric range check:
\* compareValues(x, 'between', lo, hi) is true exactly when lo <= x <= hi;
\* with the bounds 1 and 10 the values 1, 5 and 10 match, 0 and 11 do not.
C21_BetweenInclusive ==
  ComparedBetween =>
    /\ evalOut.val = ( /\ evalIn.expected.n <= evalIn.actual.n
                       /\ evalIn.actual.n <= evalIn.secondExpected.n )
    /\ (evalIn.expected = JNum(1) /\ evalIn.secondExpected = JNum(10)) =>
         /\ evalIn.actual \in {JNum(1), JNum(5), JNum(10)} => evalOut.val
         /\ evalIn.actual \in {JNum(0), JNum(11)} => ~evalOut.val

\* the upper bound itself was compared, and matched
C21_Witness ==
  /\ ComparedBetween
  /\ evalIn.expected = JNum(1) /\ evalIn.secondExpected = JNum(10)
  /\ evalIn.actual = JNum(10)
  /\ evalOut.val

(***************************************************************************)
(* C30                                                                     *)
(***************************************************************************)
\* the minutes since midnight that "HH:MM" stands for
MinutesOf(v) ==
  LET parts == StringSplit(v.s, ":")
  IN DecimalValue(parts[1]) * 60 + DecimalValue(parts[2])

IsHHMM(v) ==
  /\ v.t = "string" /\ Len(v.s) = 5 /\ CharAt(v.s, 3) = ":"
  /\ AllDigits(SubSeq(v.s, 1, 2)) /\ AllDigits(SubSeq(v.s, 4, 5))

\* the comparison of the current minutes since midnight with the operands of
\* the condition, both in minutes since midnight
TimeOfDayMatches(c) ==
  LET currentTime == clock.hour * 60 + clock.minute
  IN CASE c.operator = "=" -> currentTime = MinutesOf(c.value)
       [] c.operator = "!=" -> currentTime # MinutesOf(c.value)
       [] c.operator = ">" -> currentTime > MinutesOf(c.value)
       [] c.operator = "<" -> currentTime < MinutesOf(c.value)
       [] c.operator = ">=" -> currentTime >= MinutesOf(c.value)
       [] c.operator = "<=" -> currentTime <= MinutesOf(c.value)
       [] c.operator = "between" ->
            /\ MinutesOf(c.value) <= currentTime
            /\ currentTime <= MinutesOf(c.secondValue)

IsTimeOfDay(c) ==
  /\ c.type = "time" /\ c.property = JStr("time")
  /\ c.operator \in {"=", "!=", ">", "<", ">=", "<=", "between"}
  /\ IsHHMM(c.value)
  /\ c.operator = "between" => IsHHMM(c.secondValue)

\* C30: a time condition with property 'time' compares the current minutes
\* since midnight with the same encoding of its "HH:MM" operands, for every
\* operator: with 'between', value and secondValue "HH:MM", it is true exactly
\* when the current time of day lies within [value, secondValue].
C30_TimeOfDayCompared ==
  (evalOut.done /\ Len(evalIn.conditions) = 1 /\ IsTimeOfDay(evalIn.conditions[1]))
    => (~evalOut.threw /\ evalOut.val = TimeOfDayMatches(evalIn.conditions[1]))

(***************************************************************************)
(* C22                                                                     *)
(***************************************************************************)
TableDeviceIds == {d.deviceId : d \in config.deviceData} \cup {"unknown"}

\* what a device_offline condition on the device evaluates to
IsOffline(deviceId) == evaluateDeviceOffline(DeviceOffline(deviceId)).val

\* the device is not in the table, or its record there is not online
AbsentOrFlaggedOffline(deviceId) ==
  IF MapHas(devices, deviceId) THEN ~StoredDevice(deviceId).online ELSE TRUE

C22_Evaluation ==
  \A deviceId \in TableDeviceIds :
    /\ ~evaluateDeviceOffline(DeviceOffline(deviceId)).threw
    /\ IsOffline(deviceId) = AbsentOrFlaggedOffline(deviceId)

\* the record of a device is the one of its latest report, offline once the
\* device is marked offline; nothing else changes what the condition
\* evaluates to; and the rule on the condition fires with it
C22_Step ==
  /\ \A deviceData \in config.deviceData :
       updateDeviceData(deviceData) =>
         /\ MapHas(devices', deviceData.deviceId)
         /\ IsOffline(deviceData.deviceId)' = ~deviceData.online
  /\ \A deviceId \in config.deviceIds :
       markDeviceOffline(deviceId) => IsOffline(deviceId)'
  /\ \A deviceId \in TableDeviceIds :
       IsOffline(deviceId)' # IsOffline(deviceId) =>
         \/ \E deviceData \in config.deviceData :
              deviceData.deviceId = deviceId /\ updateDeviceData(deviceData)
         \/ deviceId \in config.deviceIds /\ markDeviceOffline(deviceId)
  /\ (InLoop /\ Top.i <= Len(Top.enabledRules)) =>
       /\ QualifyingRulesFire
       /\ (Fires /\ CurrentRule.conditions = <<DeviceOffline("d1")>>) => IsOffline("d1")

\* C22: a device_offline condition on device d is true exactly when d is
\* absent from the device table or its stored online flag is false; it is
\* false for every device whose latest record has online = true, whatever
\* updateDeviceData and markDeviceOffline calls preceded.
C22_OfflineIffAbsentOrFlag == []C22_Evaluation /\ [][C22_Step]_vars

\* the rule on d1 being offline has fired on a report of d2, d1 not being in
\* the table
C22_Witness ==
  /\ ~MapHas(devices, "d1")
  /\ \E k \in 1..Len(log) :
       /\ log[k].context.rule.id = "offline-alert"
       /\ heap[log[k].context.triggerDevice].deviceId = "d2"

(***************************************************************************)
(* C23                                                                     *)
(***************************************************************************)
\* a call of getStats leaves the rules, the devices, the cooldown timestamps,
\* the callbacks and the passes in progress as they were, returns the
\* statistics of the state it is called in, and leaves them what they are: a
\* call that follows with nothing in between returns the same
C23_Step ==
  getStats =>
    /\ rules' = rules
    /\ lastExecution' = lastExecution
    /\ TableView(devices', heap') = TableView(devices, heap)
    /\ executionCallbacks' = executionCallbacks
    /\ stack' = stack
    /\ result' = Completed("getStats", JObj(Stats))
    /\ Stats' = Stats
    /\ result = Completed("getStats", JObj(Stats)) => result' = result

\* C23: getStats() is read-only and idempotent: calling it changes no rule,
\* device or cooldown timestamp, and two calls with no intervening mutation
\* return equal results.
C23_StatsReadOnly == [][C23_Step]_vars

\* getStats has returned to the owner of the engine, with two devices in the
\* table, one of them offline, a rule disabled and a rule that has fired
C23_Witness ==
  /\ stack = <<>>
  /\ result = Completed("getStats", JObj(Stats))
  /\ Stats.totalDevices = 2 /\ Stats.onlineDevices = 1
  /\ Stats.disabledRules = 1
  /\ Len(Stats.recentExecutions) = 2

(***************************************************************************)
(* C24                                                                     *)
(***************************************************************************)
\* the statistics of a state are the counts of its rule store and of its
\* device table
C24_Counts ==
  /\ Stats.totalRules = Cardinality(MapKeys(rules))
  /\ Stats.enabledRules = Cardinality({i \in 1..Len(rules) : rules[i].val.enabled})
  /\ Stats.enabledRules + Stats.disabledRules = Stats.totalRules
  /\ Stats.disabledRules >= 0
  /\ Stats.totalDevices = Cardinality(MapKeys(devices))
  /\ Stats.onlineDevices =
       Cardinality({i \in 1..Len(devices) : heap[devices[i].val].online})
  /\ Stats.onlineDevices <= Stats.totalDevices

\* getStats returns the statistics of the state it is called in; the ids of
\* the table are the ids reported so far, the ids of the store those added
\* and not removed since
C24_Step ==
  /\ getStats => result' = Completed("getStats", JObj(Stats'))
  /\ \A deviceData \in config.deviceData :
       updateDeviceData(deviceData) =>
         MapKeys(devices') = MapKeys(devices) \cup {deviceData.deviceId}
  /\ (\A deviceData \in config.deviceData : ~updateDeviceData(deviceData)) =>
       MapKeys(devices') = MapKeys(devices)
  /\ \A rule \in config.rules :
       addRule(rule) => MapKeys(rules') = MapKeys(rules) \cup {rule.id}
  /\ \A ruleId \in RuleIdInputs :
       removeRule(ruleId) => MapKeys(rules') = MapKeys(rules) \ {ruleId}
  /\ ( /\ \A rule \in config.rules : ~addRule(rule)
       /\ \A ruleId \in RuleIdInputs : ~removeRule(ruleId) ) =>
       MapKeys(rules') = MapKeys(rules)

\* C24: after any sequence of rule-store and device-table operations
\* getStats() reflects the current state: totalRules is the number of stored
\* rules, enabledRules + disabledRules = totalRules, totalDevices is the
\* number of distinct device ids upserted, onlineDevices the number of stored
\* devices whose online flag is true (so onlineDevices <= totalDevices).
C24_StatsReflectState == []C24_Counts /\ [][C24_Step]_vars

\* a callback has read the statistics: two devices, the one that was reported
\* twice counted once and the other marked offline or reported offline, and
\* one of the added rules disabled
C24_Witness ==
  /\ stack # <<>>
  /\ result.method = "getStats"
  /\ result.ret.o.totalDevices = 2 /\ result.ret.o.onlineDevices = 1
  /\ result.ret.o.totalRules = Len(defaultRules) + 2
  /\ result.ret.o.disabledRules = 1

(***************************************************************************)
(* C25                                                                     *)
(***************************************************************************)
\* the firings of a rule within the call in progress, as the invocations of
\* the first callback for it
FiringsOf(ruleId) ==
  {k \in 1..Len(log) : log[k].cb = 1 /\ log[k].context.rule.id = ruleId}

\* the entries of a list of executions that are of a rule
EntriesOf(executions, ruleId) ==
  {k \in 1..Len(executions) : executions[k].ruleId = ruleId}

Least(a, b) == IF a < b THEN a ELSE b

\* C25: getStats().recentExecutions lists the most recent rule firings, at
\* most 10, as (ruleId, timestamp) pairs by decreasing timestamp: it contains
\* the last min(10, number of firings) firings, several firings of the same
\* rule included. Stated for the statistics a callback has just read: they
\* hold, for each rule, as many of its firings within the call in progress
\* as there are, up to 10, each with its time.
C25_RecentFirings ==
  (stack # <<>> /\ result = Completed("getStats", JObj(Stats))) =>
    LET recent == result.ret.o.recentExecutions
    IN /\ Len(recent) <= RecentLimit
       /\ \A k \in 1..(Len(recent) - 1) : recent[k].timestamp >= recent[k + 1].timestamp
       /\ \A i \in 1..Len(rules) :
            /\ Cardinality(EntriesOf(recent, rules[i].key))
                 >= Least(RecentLimit, Cardinality(FiringsOf(rules[i].key)))
            /\ \A k \in FiringsOf(rules[i].key) :
                 \E e \in EntriesOf(recent, rules[i].key) :
                   recent[e].timestamp = log[k].context.timestamp

(***************************************************************************)
(* C26                                                                     *)
(***************************************************************************)
\* the rules stored under the other ids are those of before
OthersUntouched(ruleId) ==
  \A i \in 1..Len(rules) :
    rules[i].key # ruleId =>
      /\ MapHas(rules', rules[i].key)
      /\ MapGet(rules', rules[i].key) = rules[i].val

\* the store holds one rule per id, and getRule finds each of them
C26_OneRulePerId ==
  /\ \A i, j \in 1..Len(rules) : rules[i].key = rules[j].key => i = j
  /\ \A i \in 1..Len(rules) : getRule(rules[i].key) = rules[i].val
  /\ getRule("missing") = JUndef

\* addRule stores the rule under its id in place of what was there,
\* removeRule takes the id out of the store and tells whether it was there,
\* and a pass takes its rules from the store as it is when the pass starts,
\* and fires no other rules
C26_Step ==
  /\ \A rule \in config.rules :
       addRule(rule) =>
         /\ getRule(rule.id)' = rule
         /\ OthersUntouched(rule.id)
         /\ Len(rules') = (IF MapHas(rules, rule.id) THEN Len(rules) ELSE Len(rules) + 1)
  /\ \A ruleId \in RuleIdInputs :
       removeRule(ruleId) =>
         /\ result' = Completed("removeRule", JBool(MapHas(rules, ruleId)))
         /\ getRule(ruleId)' = JUndef
         /\ OthersUntouched(ruleId)
         /\ Len(rules') = (IF MapHas(rules, ruleId) THEN Len(rules) - 1 ELSE Len(rules))
  /\ PassStarts =>
       \A j \in 1..Len(StartedPass.enabledRules) :
         getRule(StartedPass.enabledRules[j].id) = StartedPass.enabledRules[j]
  /\ (InLoop /\ Top.i <= Len(Top.enabledRules) /\ Fires) =>
       stack'[Len(stack)].context.rule = CurrentRule

\* C26 (amended): the rule store is a map from id to rule: after addRule(r),
\* getRule(r.id) returns r, whatever was stored under r.id before;
\* removeRule(id) returns true exactly when id was stored, afterwards
\* getRule(id) is undefined, and no pass that starts afterwards fires the
\* rule (a pass in progress still fires the rules it started with).
C26_StoreIsMap == []C26_OneRulePerId /\ [][C26_Step]_vars

\* C26 (as stated): once removeRule(id) has returned, the rule no longer
\* fires: a rule that fires is in the store.
C26_RemovedNeverFires ==
  [][(InLoop /\ Top.i <= Len(Top.enabledRules) /\ Fires)
       => getRule(CurrentRule.id) # JUndef]_vars

\* a callback has removed the rule low, which the pass in progress started
\* with: removeRule has returned true and getRule finds the rule no more
C26_Witness ==
  /\ stack # <<>> /\ Top.phase = "incallback"
  /\ result = Completed("removeRule", JBool(TRUE))
  /\ getRule("low") = JUndef
  /\ getRule("high") = TestRule("high", 100, JUndef, <<TemperatureAbove30>>)
  /\ \E j \in 1..Len(Top.enabledRules) : Top.enabledRules[j].id = "low"

(***************************************************************************)
(* C29                                                                     *)
(***************************************************************************)
\* the rules of the passes in progress stay what they were when the passes
\* started, and a pass ends only when its loop is through
C29_PassFixed ==
  /\ \A k \in 1..Len(stack) :
       k <= Len(stack') => /\ stack'[k].enabledRules = stack[k].enabledRules
                          /\ stack'[k].trigger = stack[k].trigger
                          /\ stack'[k].i >= stack[k].i
  /\ Len(stack') < Len(stack) =>
       /\ Len(stack') = Len(stack) - 1
       /\ Top.phase = "rules" /\ Top.i > Len(Top.enabledRules)
       /\ result' = Completed(Top.op, JUndef)

\* the pass fires the rule of each place whose conditions hold for the
\* trigger, whatever the store holds by then, and fires it as the pass took
\* it; a pass takes the rules that are enabled in the store when it starts
C29_Step ==
  /\ C29_PassFixed
  /\ (InLoop /\ Top.i <= Len(Top.enabledRules)) =>
       /\ \A j \in 1..Len(Top.enabledRules) :
            (Decides(j) /\ Qualifies(j)) => (j = Top.i /\ Fires)
       /\ Fires => stack'[Len(stack)].context.rule = CurrentRule
  /\ PassStarts => StartedPass.enabledRules = EnabledRules

\* the invocations of a pass are for rules of the pass, at their places, and
\* once the pass is beyond a place whose rule holds for the trigger, the
\* callbacks have been invoked for it
C29_Fired ==
  \A k \in 1..Len(stack) :
    /\ \A l \in 1..Len(log) :
         log[l].pass = stack[k].id =>
           /\ log[l].i \in 1..Len(stack[k].enabledRules)
           /\ log[l].context.rule = stack[k].enabledRules[log[l].i]
    /\ Len(executionCallbacks) >= 1 =>
         \A j \in 1..Len(stack[k].enabledRules) :
           ( /\ j < stack[k].i
             /\ evaluateConditions(stack[k].enabledRules[j].conditions,
                                   heap[stack[k].trigger]) = Returns(TRUE) )
           => \E l \in 1..Len(log) : log[l].pass = stack[k].id /\ log[l].i = j

\* C29: the set of rules of one evaluation pass is fixed when the pass starts
\* and the pass cannot be aborted: a callback that disables or removes a
\* lower-priority matching rule while a higher-priority rule of the same pass
\* is firing does not prevent the lower-priority rule from firing in that
\* pass, and a rule added or enabled by a callback during the pass is not
\* evaluated in that pass. (The rules of the runs have no cooldown.)
C29_PassRulesFixed == []C29_Fired /\ [][C29_Step]_vars

\* the rule low, taken into the pass, has fired after the callback of the
\* firing of the rule high took it out of the store or disabled it
C29_Witness ==
  /\ stack # <<>> /\ Firing(Top)
  /\ Top.context.rule.id = "low"
  /\ (getRule("low") = JUndef \/ ~getRule("low").enabled)
  /\ \E k \in 1..Len(log) :
       /\ log[k].pass = Top.id /\ log[k].i < Top.i
       /\ log[k].context.rule.id = "high"

(***************************************************************************)
(* C27                                                                     *)
(***************************************************************************)
\* the action is a command for no device in particular
IsUntargetedCommand(action) ==
  /\ action.type = "device_command"
  /\ Truthy(action.command) /\ ~Truthy(action.deviceId)

\* the lights of the room of the trigger among the devices of the context
LightsInRoomOf(context) ==
  {context.allDevices[i].key : i \in
     {n \in 1..Len(context.allDevices) :
        /\ heap[context.allDevices[n].val].room = heap[context.triggerDevice].room
        /\ StringIncludes(heap[context.allDevices[n].val].deviceType, "light")}}

\* a message with the command is among those sent on the command topic of
\* the device
Commanded(deviceId, command) ==
  /\ MapHas(deviceCommands, deviceId)
  /\ \E n \in 1..Len(MapGet(deviceCommands, deviceId)) :
       /\ MapGet(deviceCommands, deviceId)[n].command = command
       /\ MapGet(deviceCommands, deviceId)[n].topic = CommandTopic(deviceId)

\* C27: the engine exposes getDevices(), and the control centre uses it to
\* resolve a device_command action that has no deviceId: when such a rule
\* fires for a motion-type trigger device and a light-type device of the same
\* room is in the table, the command is published to the command topic of
\* that light. Stated for the first action of the firing, which has been
\* executed once the callback of the control centre has returned.
C27_RelatedLightCommanded ==
  \A k \in 1..Len(log) :
    ( /\ log[k].outcome = "returned"
      /\ StringIncludes(heap[log[k].context.triggerDevice].deviceType, "motion")
      /\ LightsInRoomOf(log[k].context) # {} )
    => \A a \in {1} \cap (1..Len(log[k].actions)) :
         IsUntargetedCommand(log[k].actions[a]) =>
           \E light \in LightsInRoomOf(log[k].context) :
             Commanded(light, log[k].actions[a].command)

(***************************************************************************)
(* C28                                                                     *)
(***************************************************************************)
\* the counts of an object of counts are numbers, and their sum
RECURSIVE SumOver(_, _)
SumOver(counts, keys) ==
  IF keys = {} THEN 0
  ELSE LET k == CHOOSE x \in keys : TRUE
       IN counts[k].n + SumOver(counts, keys \ {k})

SumsTo(counts, total) ==
  /\ \A k \in DOMAIN counts : counts[k].t = "number"
  /\ SumOver(counts, DOMAIN counts) = total

\* the managed devices for which P holds, in the order of the map
ManagedWhere(P(_)) == SelectSeq(MapValues(managedDevices), P)

ManagedRooms == {managedDevices[i].val.room : i \in 1..Len(managedDevices)}

ManagedTypes == {managedDevices[i].val.deviceType : i \in 1..Len(managedDevices)}

\* C28: after any sequence of createDevice and removeDevice calls,
\* getDeviceStatus() is consistent with the managed devices: totalDevices is
\* their number, onlineDevices + offlineDevices = totalDevices, the per-type
\* counts and the per-room counts each sum to totalDevices, and
\* getDevicesByRoom / getDevicesByType return exactly the managed devices of
\* that room / device type.
C28_StatusConsistent ==
  LET status == DeviceStatus
  IN /\ status.totalDevices = Cardinality(MapKeys(managedDevices))
     /\ status.onlineDevices + status.offlineDevices = status.totalDevices
     /\ SumsTo(status.devicesByType, status.totalDevices)
     /\ SumsTo(status.devicesByRoom, status.totalDevices)
     /\ \A room \in ManagedRooms \cup {"attic"} :
          /\ \A k \in 1..Len(getDevicesByRoom(room)) :
               /\ getDevicesByRoom(room)[k].room = room
               /\ MapHas(managedDevices, getDevicesByRoom(room)[k].deviceId)
          /\ Len(getDevicesByRoom(room))
               = Cardinality({i \in 1..Len(managedDevices) : managedDevices[i].val.room = room})
     /\ \A type \in ManagedTypes \cup {"energy-meter"} :
          /\ \A k \in 1..Len(getDevicesByType(type)) :
               /\ getDevicesByType(type)[k].deviceType = type
               /\ MapHas(managedDevices, getDevicesByType(type)[k].deviceId)
          /\ Len(getDevicesByType(type))
               = Cardinality({i \in 1..Len(managedDevices) :
                               managedDevices[i].val.deviceType = type})

(***************************************************************************)
(* C31                                                                     *)
(***************************************************************************)
NightHours == {22, 23} \cup (0..6)

ReportsOpen(device) ==
  /\ device.value.t = "object"
  /\ "state" \in DOMAIN device.value.o
  /\ device.value.o["state"] = JStr("open")

C31_Step ==
  IF InLoop
  THEN \A j \in 1..Len(Top.enabledRules) :
         ( /\ Decides(j)
           /\ Top.enabledRules[j].id = "door-open-night-alert"
           /\ ReportsOpen(heap[Top.trigger])
           /\ FreeToFire("door-open-night-alert") )
         => ((j = Top.i /\ Fires) <=> clock.hour \in NightHours)
  ELSE TRUE

\* C31: the default rule door-open-night-alert fires when a device reports
\* state 'open' during night hours: at every hour of the night window (22,
\* 23, 0, ..., 6) a report whose value has state = 'open' fires the rule if
\* it is enabled and not in cooldown, and at no hour outside the window does
\* the rule fire.
C31_NightDoorAlert == [][C31_Step]_vars

(***************************************************************************)
(* C32                                                                     *)
(***************************************************************************)
AllEnabledCooled ==
  \A i \in 1..Len(rules) :
    rules[i].val.enabled =>
      (rules[i].val.cooldownMs.t = "number" /\ rules[i].val.cooldownMs.n > 0)

\* no firing of the call in progress is cooldownMs or more ago
NoCooldownExpired ==
  \A k \in 1..Len(log) :
    log[k].cb = 1 =>
      now - log[k].context.timestamp < log[k].context.rule.cooldownMs.n

\* each rule has fired at most once in the call in progress
C32_Once ==
  (stack # <<>> /\ AllEnabledCooled /\ NoCooldownExpired) =>
    \A k \in 1..Len(log) : Cardinality(FiringsOf(log[k].context.rule.id)) <= 1

\* the passes below the innermost one do not move
C32_Nested ==
  \A k \in 1..(Len(stack) - 1) : Len(stack') >= k /\ stack'[k] = stack[k]

\* a stored rule without cooldown whose conditions hold fires, in a nested
\* pass as in the outermost one
C32_Refires ==
  IF InLoop
  THEN \A j \in 1..Len(Top.enabledRules) :
         ( /\ Decides(j) /\ Qualifies(j)
           /\ MapHas(rules, Top.enabledRules[j].id)
           /\ ~HasCooldown(Top.enabledRules[j].id) )
         => (j = Top.i /\ Fires)
  ELSE TRUE

LastExecutionOf(ruleId) ==
  IF MapHas(lastExecution, ruleId) THEN MapGet(lastExecution, ruleId) ELSE -1

C33_Step ==
  \A ruleId \in MapKeys(lastExecution) \cup MapKeys(lastExecution)' :
    LastExecutionOf(ruleId)' # LastExecutionOf(ruleId)
      => (InLoop /\ Top.i <= Len(Top.enabledRules) /\ Fires /\ CurrentRule.id = ruleId)

\* C33: the last-execution timestamp of a rule changes only when that rule
\* fires: a qualifying trigger that arrives while the rule is in cooldown, a
\* trigger that does not match, disableRule, enableRule, updateRule and
\* removeRule leave it unchanged, so a trigger that is skipped never extends
\* the cooldown window.
C33_TimestampOnlyOnFiring == [][C33_Step]_vars

\* the throttled rule fired at 0; a report that qualifies arrived at 1,
\* inside the cooldown, its pass is over and the timestamp is still 0
C33_Witness ==
  /\ stack = <<>>
  /\ result = Completed("updateDeviceData", JUndef)
  /\ now = 1
  /\ MapHas(lastExecution, "throttled")
  /\ MapGet(lastExecution, "throttled") = 0
  /\ isInCooldown("throttled")
  /\ MapHas(devices, "d1")
  /\ heap[MapGet(devices, "d1")].value = Hot
  /\ heap[MapGet(devices, "d1")].timestamp = 1

(***************************************************************************)
(* C34                                                                     *)
(***************************************************************************)
\* C34: every ruleId in getStats().recentExecutions is the id of a rule that
\* is in the store, after any sequence of addRule, removeRule and firings;
\* a rule that is removed and added again under its id has no recorded
\* execution and is not in cooldown. Stated for the statistics just read and
\* for the store as it is: a recorded execution is of a stored rule.
C34_ExecutionsOfStoredRules ==
  /\ result = Completed("getStats", JObj(Stats)) =>
       \A k \in 1..Len(result.ret.o.recentExecutions) :
         MapHas(rules, result.ret.o.recentExecutions[k].ruleId)
  /\ \A ruleId \in MapKeys(lastExecution) : MapHas(rules, ruleId)

(***************************************************************************)
(* C35                                                                     *)
(***************************************************************************)
\* C35: within one pass every rule is evaluated against the same telemetry
\* of the trigger device, the one that started the pass: a device_state
\* condition and a sensor_value condition with the same property, operator
\* and value and no deviceId give the same result at every rule of the pass,
\* also after a callback of an earlier rule of the pass has reported the
\* trigger device again with another value.
C35_SameTelemetry ==
  \A k \in 1..Len(stack) :
    (stack[k].phase = "rules" /\ stack[k].op = "updateDeviceData") =>
      evaluateCondition(TemperatureStateAbove30, heap[stack[k].trigger])
        = evaluateCondition(TemperatureAbove30, heap[stack[k].trigger])

(***************************************************************************)
(* C36                                                                     *)
(***************************************************************************)
\* C36: while the automation of the control centre is disabled, no incoming
\* MQTT message makes a rule fire: neither a device data message nor a
\* device status message with online = false leads to a rule-execution
\* callback or to an action being executed.
C36_DisabledAutomationIsQuiet ==
  ~control.enableAutomation =>
    /\ \A k \in 1..Len(stack) : ~Firing(stack[k])
    /\ stack # <<>> => log = <<>>

(***************************************************************************)
(* C37                                                                     *)
(***************************************************************************)
\* the action is a command that names its device
IsCommandTo(action, deviceId, command) ==
  /\ action.type = "device_command"
  /\ action.deviceId = JStr(deviceId)
  /\ action.command = command

\* the stored rules that have an action with the command for the device
RulesCommanding(deviceId, command) ==
  {rules[i].key : i \in
     {n \in 1..Len(rules) :
        \E a \in 1..Len(rules[n].val.actions) :
          IsCommandTo(rules[n].val.actions[a], deviceId, command)}}

\* the time the delay actions of a rule take together
RECURSIVE DelaysIn(_)
DelaysIn(actions) ==
  IF actions = <<>> THEN 0
  ELSE (IF WakeAfter(Head(actions)) = -1 THEN 0
        ELSE Head(actions).delayMs.n)
       + DelaysIn(Tail(actions))

DelayOfRule(ruleId) == DelaysIn(MapGet(rules, ruleId).actions)

\* C37: commands reach a device in the order of the rule firings that
\* produced them: when a rule whose actions are a delay followed by a
\* device_command fires and, before the delay has elapsed, another rule fires
\* and publishes a command to the same device, the delayed command of the
\* earlier firing is not published after the command of the later firing.
\* Stated for the commands kept for a device, each of a rule that fired
\* once: a command published before another, by a firing that came before
\* the delay of the other's firing had elapsed, is of the earlier firing.
C37_CommandsInFiringOrder ==
  \A d \in 1..Len(deviceCommands) :
    \A p, q \in 1..Len(deviceCommands[d].val) :
      p < q =>
        \A rp \in RulesCommanding(deviceCommands[d].key, deviceCommands[d].val[p].command),
           rq \in RulesCommanding(deviceCommands[d].key, deviceCommands[d].val[q].command) :
          (/\ MapHas(lastExecution, rp)
           /\ MapHas(lastExecution, rq)
           /\ MapGet(lastExecution, rp)
                < MapGet(lastExecution, rq) + DelayOfRule(rq))
            => MapGet(lastExecution, rp) <= MapGet(lastExecution, rq)
(***************************************************************************)
(* C38                                                                     *)
(***************************************************************************)
\* the executions of rule firings whose loop has not ended
Executions(c) == {c.executions[k] : k \in 1..Len(c.executions)}

\* when the next action of a firing may start after the action has been
\* awaited: a delay with a delayMs ends delayMs later
CompletesAt(action) ==
  IF action.type = "delay" /\ action.delayMs.t = "number" /\ action.delayMs.n > 0
  THEN now + action.delayMs.n ELSE -1

\* the execution after its next action has been executed
Advanced(e) == [e EXCEPT !.next = e.next + 1, !.wake = CompletesAt(e.actions[e.next])]

\* a command of an action that names its device is the last one published
\* to that device, now
PublishedIn(commands, action) ==
  (action.type = "device_command" /\ Truthy(action.command) /\ Truthy(action.deviceId))
    => /\ MapHas(commands, action.deviceId.s)
       /\ LET kept == MapGet(commands, action.deviceId.s)
          IN /\ kept # <<>>
             /\ kept[Len(kept)].command = action.command
             /\ kept[Len(kept)].sent = now

\* the action fails: a command that names no device
Fails(e, action) == executeAction(deviceCommands, action, e.triggerDevice).threw

\* every execution has executed a prefix of its actions, a firing has one
\* execution, and an execution waits for a timer only after a delay action
C38_InOrder ==
  \A e \in Executions(control) :
    /\ e.next \in 2..Len(e.actions)
    /\ \A f \in Executions(control) : f.rule = e.rule => f = e
    /\ e.wake # -1 => e.actions[e.next - 1].type = "delay"

\* a step leaves an execution as it is or executes exactly its next action,
\* after the previous one has completed, whether the action fails or not
C38_Turn ==
  \A e \in Executions(control) :
    \/ e \in Executions(control')
    \/ /\ e.wake = -1 \/ now >= e.wake
       /\ PublishedIn(deviceCommands', e.actions[e.next])
       /\ {f \in Executions(control') : f.rule = e.rule}
            = IF e.next < Len(e.actions) THEN {Advanced(e)} ELSE {}

\* a step starts an execution with the first action of a firing
C38_Start ==
  \A f \in Executions(control') \ Executions(control) :
    \/ \E e \in Executions(control) : f = Advanced(e)
    \/ /\ stack # <<>> /\ Top.phase = "incallback"
       /\ f.actions = log[Running].actions
       /\ f = Advanced([f EXCEPT !.next = 1, !.wake = -1])
       /\ PublishedIn(deviceCommands', f.actions[1])

\* the callback of the control centre leaves an execution for a firing
\* with more than one action, whether the first action fails or not
C38_Begins ==
  (/\ stack # <<>> /\ Top.phase = "incallback"
   /\ stack' # stack
   /\ Len(log[Running].actions) >= 2)
    => \E f \in Executions(control') \ Executions(control) :
         /\ f.rule = log[Running].context.rule.id
         /\ f.actions = log[Running].actions
         /\ f.next = 2

\* commands are published by the actions of executions only
C38_OnlyByTurns ==
  deviceCommands' # deviceCommands =>
    \/ \E e \in Executions(control) :
         /\ e \notin Executions(control')
         /\ ~Fails(e, e.actions[e.next])
    \/ stack # <<>> /\ Top.phase = "incallback"

\* C38: the control centre executes the actions of one rule firing strictly
\* in list order, each action starting only after the previous one has
\* completed (a delay action postpones all later actions of that firing by
\* delayMs), and an action that fails does not prevent the later actions of
\* the same firing from being executed.
C38_ActionsInListOrder ==
  []C38_InOrder /\ [][C38_Begins /\ C38_Turn /\ C38_Start /\ C38_OnlyByTurns]_vars

\* the firing of lights-on, whose first command fails, has published its
\* second command, and the firing of lights-off has published its command
\* after its delay
C38_Witness ==
  /\ MapHas(deviceCommands, "light-1")
  /\ \E p, q \in 1..Len(MapGet(deviceCommands, "light-1")) :
       /\ MapGet(deviceCommands, "light-1")[p].command = JObj([command |-> JStr("turnOn")])
       /\ MapGet(deviceCommands, "light-1")[q].command = JObj([command |-> JStr("turnOff")])
       /\ MapGet(deviceCommands, "light-1")[q].sent
            >= MapGet(lastExecution, "lights-off") + Wait
  /\ \A e \in Executions(control) : e.rule \notin {"lights-on", "lights-off"}

(***************************************************************************)
(* C39                                                                     *)
(***************************************************************************)
\* the interval timers of a kind that the device has set and not cleared
ActiveTimers(device, kind) == {t \in device.timers : t.kind = kind}

C39_OnePublishTimer ==
  \A k \in 1..Len(baseDevices) :
    Cardinality(ActiveTimers(baseDevices[k].val, "publish")) <= 1

C39_OneHeartbeatTimer ==
  \A k \in 1..Len(baseDevices) :
    Cardinality(ActiveTimers(baseDevices[k].val, "heartbeat")) <= 1

C39_NoneAfterDisconnect ==
  result.method = "disconnect" =>
    \A k \in 1..Len(baseDevices) : baseDevices[k].val.timers = {}

\* C39: a device has at most one active heartbeat timer and at most one
\* active publish timer after any sequence of connect, broker 'connect'
\* events (including reconnects), startPublishing, stopPublishing and
\* disconnect, and after disconnect() no heartbeat or publish timer of that
\* device remains active.
C39_TimersOfDevice ==
  /\ C39_OneHeartbeatTimer
  /\ C39_OnePublishTimer
  /\ C39_NoneAfterDisconnect

(***************************************************************************)
(* C40                                                                     *)
(***************************************************************************)
\* C40: after stopAllDevices() resolves, no device managed by the
\* DeviceManager is online or still publishing, for every sequence of
\* createDevice, startAllDevices and stopAllDevices calls that preceded it
\* (including createDevice calls never followed by startAllDevices).
C40_AllStoppedAfterStop ==
  result.method = "stopAllDevices" =>
    \A k \in 1..Len(baseDevices) :
      /\ ~baseDevices[k].val.online
      /\ ActiveTimers(baseDevices[k].val, "publish") = {}

====
